---- MODULE Spec2Model ----
(***************************************************************************)
(* Model of the vibe-cherry app generation endpoint                        *)
(* (src/components/VibeAppMaker.tsx holds the "enhanced" version of        *)
(* pages/api/generate-app.ts): request handling, app type detection, the   *)
(* single model call raced against a 25 s timer, response parsing, the     *)
(* fallback generator and the project file assembly.                       *)
(*                                                                         *)
(* Texts are TLA+ strings; JavaScript values that may be undefined, null   *)
(* or of any JSON type are tagged records [t |-> type, v |-> value].       *)
(***************************************************************************)
EXTENDS Integers, Sequences, FiniteSets, TLC

(***************************************************************************)
(* JavaScript values                                                       *)
(***************************************************************************)
Undefined == [t |-> "undefined"]
JNull == [t |-> "null"]
JStr(s) == [t |-> "string", v |-> s]
JNum(n) == [t |-> "number", v |-> n]
JArr(q) == [t |-> "array", v |-> q]
JObj(f) == [t |-> "object", v |-> f]

\* x.k for an object x: undefined when the key is absent.
Get(x, k) == IF x.t = "object" /\ k \in DOMAIN x.v THEN x.v[k] ELSE Undefined

\* Truthiness, as used by || and by if (!x).
Truthy(x) ==
    CASE x.t = "undefined" -> FALSE
      [] x.t = "null" -> FALSE
      [] x.t = "string" -> x.v # ""
      [] x.t = "number" -> x.v # 0
      [] OTHER -> TRUE

\* const v = x; F(v): x is evaluated once and F applied to its value.
Const(x, F(_)) == CHOOSE r \in {F(v) : v \in {x}} : TRUE

(***************************************************************************)
(* String primitives                                                       *)
(***************************************************************************)
UpperChars == "ABCDEFGHIJKLMNOPQRSTUVWXYZ"
LowerChars == "abcdefghijklmnopqrstuvwxyz"
DigitChars == "0123456789"

CharAt(s, i) == SubSeq(s, i, i)

CharsOf(s) == {CharAt(s, i) : i \in 1..Len(s)}

UpperSet == CharsOf(UpperChars)
AlnumSet == CharsOf(UpperChars) \cup CharsOf(LowerChars) \cup CharsOf(DigitChars)

\* The lower-case letter of every upper-case letter.
LowerOf ==
    [c \in UpperSet |->
       CharAt(LowerChars, CHOOSE i \in 1..Len(UpperChars) : CharAt(UpperChars, i) = c)]

MapChar(kind, c) ==
    CASE kind = "lower" -> IF c \in UpperSet THEN LowerOf[c] ELSE c
      [] kind = "slug" -> IF c \in AlnumSet THEN c ELSE "-"

RECURSIVE MapChars(_, _, _, _)
\* Apply the character map kind to the characters lo..hi of s (by halves).
MapChars(kind, s, lo, hi) ==
    IF lo > hi THEN ""
    ELSE IF lo = hi THEN MapChar(kind, CharAt(s, lo))
    ELSE LET mid == (lo + hi) \div 2
         IN MapChars(kind, s, lo, mid) \o MapChars(kind, s, mid + 1, hi)

\* String.prototype.toLowerCase
toLowerCase(s) == MapChars("lower", s, 1, Len(s))

RECURSIVE MapRuns(_, _, _)
\* The characters lo..hi of s, every maximal run of characters outside a-z, A-Z,
\* 0-9 replaced by one separator (by halves).
MapRuns(s, lo, hi) ==
    IF lo > hi THEN ""
    ELSE IF lo = hi
    THEN IF CharAt(s, lo) \in AlnumSet THEN CharAt(s, lo)
         ELSE IF lo > 1 /\ CharAt(s, lo - 1) \notin AlnumSet THEN "" ELSE "-"
    ELSE LET mid == (lo + hi) \div 2
         IN MapRuns(s, lo, mid) \o MapRuns(s, mid + 1, hi)

\* Mutant: s.replace(/[^a-zA-Z0-9]+/g, '-'), one separator for a whole run.
replaceNonAlnumRuns(s) == MapRuns(s, 1, Len(s))

\* s.replace(/[^a-zA-Z0-9]/g, '-')
replaceNonAlnum(s) == MapChars("slug", s, 1, Len(s))

\* String.prototype.includes
includes(s, k) == \E i \in 1..(Len(s) - Len(k) + 1) : SubSeq(s, i, i + Len(k) - 1) = k

StartsWithAt(s, i, k) == i + Len(k) - 1 <= Len(s) /\ SubSeq(s, i, i + Len(k) - 1) = k

\* s.slice(0, n)
slice0(s, n) == SubSeq(s, 1, IF Len(s) < n THEN Len(s) ELSE n)

RECURSIVE Join(_, _)
\* Array.prototype.join over a sequence of strings
Join(q, sep) ==
    IF Len(q) = 0 THEN ""
    ELSE IF Len(q) = 1 THEN q[1]
    ELSE q[1] \o sep \o Join(Tail(q), sep)

RECURSIVE Str(_)
\* Template-literal interpolation ${x}: the string a value converts to.
Str(x) ==
    CASE x.t = "string" -> x.v
      [] x.t = "number" -> ToString(x.v)
      [] x.t = "boolean" -> IF x.v THEN "true" ELSE "false"
      [] x.t = "object" -> "[object Object]"
      [] x.t = "array" -> Join([i \in 1..Len(x.v) |-> Str(x.v[i])], ",")
      [] OTHER -> x.t

(***************************************************************************)
(* detectAppType                                                           *)
(***************************************************************************)
AppCategories ==
    {"todo", "weather", "habit-tracker", "recipe", "notes", "timer", "calculator",
     "calendar", "budget", "audio-tracker", "productivity"}

\* The keywords of the detectAppType rules, in the order of the rules.
Rules ==
    << [category |-> "todo", keywords |-> {"todo", "task"}],
       [category |-> "weather", keywords |-> {"weather"}],
       [category |-> "habit-tracker", keywords |-> {"habit", "track"}],
       [category |-> "recipe", keywords |-> {"recipe", "food", "cooking"}],
       [category |-> "notes", keywords |-> {"note", "journal"}],
       [category |-> "timer", keywords |-> {"timer", "pomodoro"}],
       [category |-> "calculator", keywords |-> {"calculator"}],
       [category |-> "calendar", keywords |-> {"calendar", "event"}],
       [category |-> "budget", keywords |-> {"budget", "expense", "money"}],
       [category |-> "audio-tracker", keywords |-> {"bird", "song", "audio"}] >>

\* The first rule, in the order given, one of whose keywords text includes.
FirstRule(text, order, dflt) ==
    LET hits == {i \in 1..Len(order) :
                   \E k \in Rules[order[i]].keywords : includes(text, k)}
    IN IF hits = {} THEN dflt
       ELSE Rules[order[CHOOSE i \in hits : \A j \in hits : i <= j]].category

\* Mutant: an idea without keywords gets a category outside the closed set.
detectAppTypeOtherDefault(idea) ==
    FirstRule(toLowerCase(idea), <<1, 2, 3, 4, 5, 6, 7, 8, 9, 10>>, "general")

\* Mutant: the habit rule is tested before the weather rule.
detectAppTypeReordered(idea) ==
    FirstRule(toLowerCase(idea), <<1, 3, 2, 4, 5, 6, 7, 8, 9, 10>>, "productivity")

detectAppType(idea) ==
    Const(toLowerCase(idea), LAMBDA ideaLower :
      IF includes(ideaLower, "todo") \/ includes(ideaLower, "task") THEN "todo"
      ELSE IF includes(ideaLower, "weather") THEN "weather"
      ELSE IF includes(ideaLower, "habit") \/ includes(ideaLower, "track") THEN "habit-tracker"
      ELSE IF includes(ideaLower, "recipe") \/ includes(ideaLower, "food")
              \/ includes(ideaLower, "cooking") THEN "recipe"
      ELSE IF includes(ideaLower, "note") \/ includes(ideaLower, "journal") THEN "notes"
      ELSE IF includes(ideaLower, "timer") \/ includes(ideaLower, "pomodoro") THEN "timer"
      ELSE IF includes(ideaLower, "calculator") THEN "calculator"
      ELSE IF includes(ideaLower, "calendar") \/ includes(ideaLower, "event") THEN "calendar"
      ELSE IF includes(ideaLower, "budget") \/ includes(ideaLower, "expense")
              \/ includes(ideaLower, "money") THEN "budget"
      ELSE IF includes(ideaLower, "bird") \/ includes(ideaLower, "song")
              \/ includes(ideaLower, "audio") THEN "audio-tracker"
      ELSE "productivity")

(***************************************************************************)
(* Fallback generator                                                      *)
(***************************************************************************)
Themes == {"minimal", "playful", "professional", "artistic", "techy"}
Layouts == {"single", "dual", "triple", "quad"}

\* Lookup obj[key] || dflt in a table keyed by strings; key is a JS value.
Lookup(table, key, dflt) ==
    IF key.t = "string" /\ key.v \in DOMAIN table THEN table[key.v] ELSE dflt

getThemeConfig(theme) ==
    LET configs ==
          [minimal |-> [bg |-> "from-gray-50 to-white", text |-> "text-gray-900",
                        card |-> "bg-white border border-gray-200",
                        button |-> "bg-gray-900 text-white hover:bg-gray-800",
                        accent |-> "text-gray-600"],
           playful |-> [bg |-> "from-pink-100 via-purple-50 to-indigo-100",
                        text |-> "text-purple-900",
                        card |-> "bg-white/80 backdrop-blur-sm border border-purple-200",
                        button |-> "bg-purple-600 text-white hover:bg-purple-700",
                        accent |-> "text-purple-600"],
           professional |-> [bg |-> "from-blue-50 to-indigo-100", text |-> "text-blue-900",
                             card |-> "bg-white border border-blue-200",
                             button |-> "bg-blue-600 text-white hover:bg-blue-700",
                             accent |-> "text-blue-600"]]
    IN Lookup(configs, theme, configs["playful"])

\* The page header every generated component starts with.
AppHeader(imports, name, theme, heading, idea) ==
    "import React, { useState } from 'react';\nimport { " \o imports
      \o " } from 'lucide-react';\n\nexport default function " \o name
      \o "() {\n  return (\n    <div className=\"min-h-screen bg-gradient-to-br "
      \o theme.bg \o " p-8\">\n<h1 className=\"text-4xl font-bold " \o theme.text
      \o " mb-2\">\n" \o heading \o "\n</h1>\n<p className=\"" \o theme.accent
      \o " text-lg\">\n" \o idea \o "\n</p>\n"

generateTodoApp(idea, theme, layout) ==
    AppHeader("Plus, Check, X, Search", "TodoApp", theme, "Smart Todo Manager", idea)
      \o "<div className=\"" \o theme.card \o " rounded-xl p-6 shadow-lg mb-6\">\n"
      \o "<button onClick={addTodo} className=\"" \o theme.button \o "\">Add Task</button>\n"
      \o "onChange={() => toggleTodo(todo.id)} onClick={() => deleteTodo(todo.id)}\n"
      \o "</div>\n  );\n}"

generateWeatherApp(idea, theme, layout) ==
    AppHeader("Search, Thermometer, Wind, Droplets", "WeatherApp", theme,
              "Weather Dashboard", idea)
      \o "<div className=\"" \o theme.card \o " rounded-xl p-6 shadow-lg mb-6\">\n"
      \o "<input value={searchCity} placeholder=\"Search city...\" />\n"
      \o "<button onClick={toggleUnit} className=\"" \o theme.button \o "\">{unit}</button>\n"
      \o "</div>\n  );\n}"

generateHabitApp(idea, theme, layout) ==
    AppHeader("Plus, Flame, Target, Calendar", "HabitApp", theme, "Habit Tracker Pro", idea)
      \o "<div className=\"" \o theme.card \o " rounded-xl p-6 shadow-lg mb-6\">\n"
      \o "<button onClick={addHabit} className=\"" \o theme.button \o "\">Add Habit</button>\n"
      \o "</div>\n  );\n}"

generateAudioTrackerApp(idea, theme, layout) ==
    AppHeader("Mic, Play, Square, Bird", "AudioTrackerApp", theme, "Bird Song Tracker", idea)
      \o "<div className=\"" \o theme.card \o " rounded-xl p-6 shadow-lg mb-6\">\n"
      \o "<button onClick={toggleRecording} className=\"" \o theme.button \o "\">Record</button>\n"
      \o "</div>\n  );\n}"

RECURSIVE FeatureCards(_, _, _, _)
\* Array(colCount).fill(0).map((_, i) => card).join('')
FeatureCards(i, colCount, theme, appType) ==
    IF i > colCount THEN ""
    ELSE "<div className=\"" \o theme.card \o " rounded-xl p-6 shadow-lg\">Feature "
           \o ToString(i) \o "\nInteractive component for your " \o appType
           \o " app functionality.\n<button className=\"" \o theme.button
           \o "\">Take Action</button></div>\n"
           \o FeatureCards(i + 1, colCount, theme, appType)

generateGenericApp(idea, theme, layout, appType) ==
    LET cols == [single |-> "1", dual |-> "2", triple |-> "3", quad |-> "4"]
        count == [single |-> 1, dual |-> 2, triple |-> 3, quad |-> 4]
        colCount == Lookup(count, layout, 3)
    IN AppHeader("Sparkles, Settings, Users, BarChart3", "App", theme,
                 slice0(idea, 50) \o (IF Len(idea) > 50 THEN "..." ELSE ""), idea)
         \o "<div className=\"grid grid-cols-1 md:grid-cols-"
         \o Lookup(cols, layout, "undefined") \o " gap-6\">\n"
         \o FeatureCards(1, colCount, theme, appType)
         \o "</div>\n  );\n}"

generateEnhancedApp(idea, theme, layout, appType) ==
    LET themeConfig == getThemeConfig(theme) IN
    CASE appType = "todo" -> generateTodoApp(idea, themeConfig, layout)
      [] appType = "weather" -> generateWeatherApp(idea, themeConfig, layout)
      [] appType = "habit-tracker" -> generateHabitApp(idea, themeConfig, layout)
      [] appType = "audio-tracker" -> generateAudioTrackerApp(idea, themeConfig, layout)
      [] OTHER -> generateGenericApp(idea, themeConfig, layout, appType)

\* Mutant: no generic list for the categories the table lacks.
getAppFeaturesNoDefault(appType) ==
    IF appType \in {"todo", "weather", "habit-tracker", "recipe", "audio-tracker",
                    "productivity"}
    THEN <<"Feature">> ELSE <<>>

getAppFeatures(appType) ==
    LET features ==
          ("todo" :> <<"Add/Edit Tasks", "Mark Complete", "Filter Views", "Search">>)
          @@ ("weather" :> <<"Current Weather", "5-Day Forecast", "City Search", "Unit Toggle">>)
          @@ ("habit-tracker" :>
                <<"Daily Tracking", "Streak Counter", "Progress Charts", "Add Habits">>)
          @@ ("recipe" :> <<"Recipe Cards", "Ingredient Lists", "Search Recipes", "Favorites">>)
          @@ ("audio-tracker" :> <<"Audio Detection", "Species Library", "Logging", "Analytics">>)
          @@ ("productivity" :> <<"Dashboard", "Task Management", "Analytics", "Quick Actions">>)
    IN IF appType \in DOMAIN features THEN features[appType]
       ELSE <<"Modern Design", "Responsive Layout", "Interactive UI">>

\* Mutant: the title is taken from the idea and the description names the
\* category only.
generateEnhancedFallbackTitledByIdea(idea, theme, layout, appType) ==
    JObj([title |-> JStr(idea),
          description |-> JStr("A " \o appType \o " app"),
          appType |-> JStr(appType),
          code |-> JObj("App.tsx" :> JStr(generateEnhancedApp(idea, theme, layout, appType))),
          config |-> JObj([theme |-> theme, layout |-> layout,
                           features |-> JArr(<<JStr("Modern Design"),
                                               JStr("Responsive Layout"),
                                               JStr("Interactive UI")>>)])])

generateEnhancedFallback(idea, theme, layout, appType) ==
    LET titles ==
          ("todo" :> "Smart Todo Manager") @@ ("weather" :> "Weather Dashboard")
          @@ ("habit-tracker" :> "Habit Tracker Pro") @@ ("recipe" :> "Recipe Collection")
          @@ ("notes" :> "Notes App") @@ ("audio-tracker" :> "Audio Logger")
          @@ ("timer" :> "Focus Timer") @@ ("calculator" :> "Smart Calculator")
          @@ ("productivity" :> "Productivity Hub")
        feats == getAppFeatures(appType)
    IN JObj([title |-> JStr(IF appType \in DOMAIN titles THEN titles[appType] ELSE "Vibe App"),
             description |-> JStr("A " \o Str(theme) \o " " \o appType \o " app: " \o idea),
             appType |-> JStr(appType),
             code |-> JObj("App.tsx" :> JStr(generateEnhancedApp(idea, theme, layout, appType))),
             config |-> JObj([theme |-> theme, layout |-> layout,
                              features |-> JArr([i \in 1..Len(feats) |-> JStr(feats[i])])])])

(***************************************************************************)
(* Response parsing                                                        *)
(***************************************************************************)
JBool(b) == [t |-> "boolean", v |-> b]

RECURSIVE RemoveFence(_, _, _)
\* s.replace(/<fence>\n?/g, ''), from position i on: drop every occurrence of
\* fence, scanning left to right, and the newline that directly follows it.
RemoveFence(s, fence, i) ==
    LET hits == {k \in i..Len(s) : StartsWithAt(s, k, fence)} IN
    IF hits = {} THEN SubSeq(s, i, Len(s))
    ELSE LET k == CHOOSE h \in hits : \A g \in hits : h <= g
             j == k + Len(fence)
         IN SubSeq(s, i, k - 1)
              \o RemoveFence(s, fence, IF StartsWithAt(s, j, "\n") THEN j + 1 ELSE j)

IsSpace(c) == c \in {" ", "\n", "\t", "\r"}

RECURSIVE SkipSpaces(_, _, _)
\* The first position from i on, going in direction d, that holds no white space.
SkipSpaces(s, i, d) ==
    IF i < 1 \/ i > Len(s) \/ ~IsSpace(CharAt(s, i)) THEN i ELSE SkipSpaces(s, i + d, d)

\* String.prototype.trim
trim(s) == SubSeq(s, SkipSpaces(s, 1, 1), SkipSpaces(s, Len(s), -1))

\* The code fence marker. A TLA+ string cannot hold a backquote, so the three
\* backquotes of the source are written as three apostrophes throughout.
Fence == "'''"

cleanText(text) == trim(RemoveFence(RemoveFence(text, Fence \o "json", 1), Fence, 1))

\* The JSON documents the modelled provider can send, with their values.
DocApp ==
    "{\"title\":\"Grocery List\",\"description\":\"Shopping made easy\","
      \o "\"code\":{\"App.tsx\":\"export default function App() { return null; }\"},"
      \o "\"config\":{\"theme\":\"minimal\",\"layout\":\"dual\","
      \o "\"features\":[\"Add items\",\"Check off\"]}}"
ValApp ==
    JObj([title |-> JStr("Grocery List"), description |-> JStr("Shopping made easy"),
          code |-> JObj("App.tsx" :> JStr("export default function App() { return null; }")),
          config |-> JObj([theme |-> JStr("minimal"), layout |-> JStr("dual"),
                           features |-> JArr(<<JStr("Add items"), JStr("Check off")>>)])])
DocBare == "{\"title\":\"Bare\"}"
ValBare == JObj([title |-> JStr("Bare")])
DocNull == "null"
DocNumber == "42"

JsonDocs == (DocApp :> ValApp) @@ (DocBare :> ValBare) @@ (DocNull :> JNull)
              @@ (DocNumber :> JNum(42))

\* JSON.parse: the value of a JSON document, or a thrown SyntaxError.
JSONparse(s) ==
    IF s \in DOMAIN JsonDocs THEN [threw |-> FALSE, value |-> JsonDocs[s]]
    ELSE [threw |-> TRUE, message |-> "Unexpected token"]

\* The texts of the provider's text block.
ModelTexts ==
    {DocApp, Fence \o "json\n" \o DocApp \o "\n" \o Fence, DocBare, DocNull, DocNumber,
     "Sure! Here's your app: {not valid json", "Here is your app:\n" \o DocApp, ""}

(***************************************************************************)
(* The handler                                                             *)
(***************************************************************************)
TimeoutMs == 25000

\* { ...appData }: the own enumerable properties of a parsed value.
Spread(x) == IF x.t = "object" THEN x.v ELSE <<>>

\* JSON.stringify({ name, version, scripts, dependencies }, null, 2)
packageJson(name) ==
    "{\n  \"name\": \"" \o name \o "\",\n  \"version\": \"1.0.0\",\n  \"scripts\": {\n"
      \o "    \"dev\": \"bun run --hot src/index.tsx\",\n"
      \o "    \"build\": \"bun build src/index.tsx --outdir build --minify\"\n  },\n"
      \o "  \"dependencies\": {\n    \"hono\": \"^3.12.0\",\n    \"react\": \"^18.2.0\",\n"
      \o "    \"react-dom\": \"^18.2.0\",\n    \"lucide-react\": \"^0.263.1\"\n  }\n}"

devboxJson ==
    "{\n  \"packages\": [\n    \"bun@1.0.0\"\n  ],\n  \"shell\": {\n    \"scripts\": {\n"
      \o "      \"dev\": \"bun run dev\",\n      \"build\": \"bun run build\"\n    }\n  }\n}"

\* Mutant: the project name gets a prefix.
projectNamePrefixed(title) ==
    IF title.t = "string" /\ title.v # ""
    THEN "vibe-" \o replaceNonAlnum(toLowerCase(title.v))
    ELSE "vibe-app"

\* appData.title?.toLowerCase().replace(/[^a-zA-Z0-9]/g, '-') || 'vibe-app'
projectName(title) ==
    IF title.t = "string" /\ title.v # "" THEN replaceNonAlnum(toLowerCase(title.v))
    ELSE "vibe-app"

\* The README.md template of the model path.
readme(appData, idea) ==
    LET title == Get(appData, "title")
        description == Get(appData, "description")
        features == Get(Get(appData, "config"), "features")
        bullets == IF features.t = "array"
                   THEN Join([i \in 1..Len(features.v) |-> "- " \o Str(features.v[i])], "\n")
                   ELSE ""
    IN "# " \o (IF Truthy(title) THEN Str(title) ELSE "Vibe App") \o "\n\n"
         \o (IF Truthy(description) THEN Str(description) ELSE idea)
         \o "\n\n## Features\n\n"
         \o (IF bullets # "" THEN bullets ELSE "- Modern design\n- Responsive layout")
         \o "\n\n## Quick Start\n\n" \o Fence \o "bash\ndevbox run dev\n" \o Fence

\* const projectFiles = { ... } of the model path.
projectFiles(appData, idea, theme, layout, appType) ==
    LET app == Get(Get(appData, "code"), "App.tsx") IN
    JObj(("package.json" :> JStr(packageJson(projectName(Get(appData, "title")))))
         @@ ("devbox.json" :> JStr(devboxJson))
         @@ ("src/App.tsx" :>
               IF Truthy(app) THEN app
               ELSE JStr(generateEnhancedApp(idea, theme, layout, appType)))
         @@ ("README.md" :> JStr(readme(appData, idea))))

\* Mutant: the timeout response carries no readme.
timeoutFilesNoReadme(idea, theme, layout, appType) ==
    JObj(("package.json" :> JStr("{\"name\": \"fallback-app\", \"version\": \"1.0.0\"}"))
         @@ ("src/App.tsx" :> JStr(generateEnhancedApp(idea, theme, layout, appType))))

\* The files of the timeout response.
timeoutFiles(idea, theme, layout, appType) ==
    JObj(("package.json" :> JStr("{\"name\": \"fallback-app\", \"version\": \"1.0.0\"}"))
         @@ ("src/App.tsx" :> JStr(generateEnhancedApp(idea, theme, layout, appType)))
         @@ ("README.md" :> JStr("# Fallback App\n\n" \o idea)))

Respond(status, json) == [status |-> status, json |-> json]

\* Mutant: the catch branch compares with another message than the timer's.
CatchBranchOtherMessage(message, body, now, rnd) ==
    [response |-> Respond(500, JObj([error |-> JStr("Generation failed"),
                                     details |-> JStr(message)])),
     used |-> {}]

\* The catch branch: a fallback app for the timeout, an error for the rest.
CatchBranch(message, body, now, rnd) ==
    IF message = "API timeout"
    THEN Const(detectAppType(body.idea.v), LAMBDA appType :
         LET idea == body.idea.v
             fallbackApp == generateEnhancedFallback(idea, body.theme, body.layout, appType)
         IN [response |->
               Respond(200, JObj([success |-> JBool(TRUE),
                  app |-> JObj([files |-> timeoutFiles(idea, body.theme, body.layout, appType),
                                timestamp |-> JNum(now),
                                id |-> JStr("fallback-" \o slice0(rnd, 6)),
                                fallback |-> JBool(TRUE),
                                appType |-> JStr(appType)]
                               @@ Spread(fallbackApp))])),
             used |-> {"detectAppType", "generateEnhancedFallback"}])
    ELSE [response |-> Respond(500, JObj([error |-> JStr("Generation failed"),
                                          details |-> JStr(message)])),
          used |-> {}]

\* The statements after the parse, from projectFiles to the response or the
\* first throw, for the appData the parse or the fallback has produced.
AssembleResponse(appData, used, body, duration, now, rnd) ==
    LET idea == body.idea.v
        appType == detectAppType(idea)
        title == Get(appData, "title")
        features == Get(Get(appData, "config"), "features")
    IN
    IF appData.t = "null"
    THEN [threw |-> TRUE, message |-> "Cannot read properties of null (reading 'title')",
          used |-> used, appData |-> appData]
    ELSE IF title.t \notin {"undefined", "null", "string"}
    THEN [threw |-> TRUE, message |-> "appData.title?.toLowerCase is not a function",
          used |-> used, appData |-> appData]
    ELSE IF features.t \notin {"undefined", "null", "array"}
    THEN [threw |-> TRUE, message |-> "appData.config?.features?.map is not a function",
          used |-> used, appData |-> appData]
    ELSE [threw |-> FALSE, used |-> used, appData |-> appData,
          response |->
            Respond(200, JObj([success |-> JBool(TRUE),
               app |-> JObj([files |-> projectFiles(appData, idea, body.theme,
                                                    body.layout, appType),
                             timestamp |-> JNum(now),
                             id |-> JStr(rnd),
                             generationTime |-> JNum(duration),
                             appType |-> JStr(appType)]
                            @@ Spread(appData))]))]

\* Mutant: the SyntaxError of JSON.parse is not caught next to the parse and
\* reaches the catch branch of the handler.
AfterAwaitParseErrorEscapes(content, body, duration, now, rnd) ==
    LET texts == {i \in 1..Len(content) : content[i].type = "text"} IN
    IF texts = {}
    THEN [threw |-> TRUE, message |-> "No response from Claude", used |-> {},
          appData |-> Undefined]
    ELSE
      LET textContent == content[CHOOSE i \in texts : \A j \in texts : i <= j]
          parsed == JSONparse(cleanText(textContent.text))
      IN IF parsed.threw
         THEN [threw |-> TRUE, message |-> parsed.message, used |-> {},
               appData |-> Undefined]
         ELSE AssembleResponse(parsed.value, {}, body, duration, now, rnd)

\* The statements after the await, up to the response or the first throw.
AfterAwait(content, body, duration, now, rnd) ==
    LET texts == {i \in 1..Len(content) : content[i].type = "text"} IN
    IF texts = {}
    THEN [threw |-> TRUE, message |-> "No response from Claude", used |-> {},
          appData |-> Undefined]
    ELSE
      LET textContent == content[CHOOSE i \in texts : \A j \in texts : i <= j]
          parsed == JSONparse(cleanText(textContent.text))
      IN IF parsed.threw
         THEN AssembleResponse(
                generateEnhancedFallback(body.idea.v, body.theme, body.layout,
                                         detectAppType(body.idea.v)),
                {"generateEnhancedFallback"}, body, duration, now, rnd)
         ELSE AssembleResponse(parsed.value, {}, body, duration, now, rnd)

(***************************************************************************)
(* State                                                                   *)
(***************************************************************************)
VARIABLES
    apiKey,      \* process.env.ANTHROPIC_API_KEY
    method,      \* req.method
    body,        \* req.body: idea, theme, layout
    provider,    \* what the model provider does with a call it receives
    pc,          \* "request", "awaiting" (at the await of the race), "responded"
    appType,     \* const appType = detectAppType(idea)
    appData,     \* let appData: the parsed model text or the fallback
    apiCalls,    \* number of anthropic.messages.create invocations
    callPending, \* the promise of messages.create is not settled yet
    timerArmed,  \* the setTimeout of the race has not fired yet
    startTime,   \* const startTime = Date.now()
    now,         \* Date.now(), in ms since the request arrived
    steps,       \* the pipeline functions the handler has invoked
    responses,   \* what was sent with res.status(..).json(..)
    \* the project name of a title
    title,         \* appData.title
    manifest,      \* the package.json the generation handler assembles for the title
    reassembled,   \* the package.json assembled for the name of manifest as the title
    download,      \* what the download handler sent
    slugPc,        \* "assemble", "reassemble", "download", "done"
    \* the gallery
    blobs,         \* the blob store: pathname -> content
    publish,       \* the publish requests being served
    clock,         \* the system time, in ms
    listing,       \* what the listing handler sent
    \* two runs of the generation handler under two credentials
    draws,         \* the request, what the provider does, Date.now() and Math.random()
    runs           \* per credential: the run of the handler and the publish of its app

handlerVars == <<apiKey, method, body, provider, pc, appType, appData, apiCalls,
                 callPending, timerArmed, startTime, now, steps, responses>>
slugVars == <<title, manifest, reassembled, download, slugPc>>
galleryVars == <<blobs, publish, clock, listing>>
credVars == <<draws, runs>>
vars == <<handlerVars, slugVars, galleryVars, credVars>>

\* Bounds of the model
TickMs == 12500
MaxNow == 37500

\* One idea per app category, in the order of the detectAppType rules, and one
\* with keywords of several categories.
HandlerIdeas ==
    {"A todo app for groceries", "Weather for my city", "Build better habits",
     "Family recipe book", "Daily journal", "Pomodoro clock", "Tip calculator",
     "Team calendar", "Monthly budget", "Bird song logger", "Something nice",
     "Track my TASKS and the weather"}

\* Well-formed request bodies: every idea with every theme and layout.
FullBodies ==
    [idea : {JStr(i) : i \in HandlerIdeas},
     theme : {JStr(t) : t \in Themes},
     layout : {JStr(l) : l \in Layouts}]

\* Request bodies in which any of the three fields may be missing.
PartialBodies ==
    [idea : {JStr("A todo app for groceries"), Undefined},
     theme : {JStr("minimal"), Undefined},
     layout : {JStr("dual"), Undefined}]

TextBlock(text) == [type |-> "text", text |-> text]
ToolBlock == [type |-> "tool_use"]

ProviderOutcomes ==
    {[kind |-> "resolve", content |-> <<TextBlock(t)>>] : t \in ModelTexts}
    \cup {[kind |-> "resolve", content |-> <<>>],
          [kind |-> "resolve", content |-> <<ToolBlock>>],
          [kind |-> "resolve", content |-> <<ToolBlock, TextBlock(DocApp)>>],
          [kind |-> "reject", message |-> "401 authentication_error"],
          [kind |-> "reject", message |-> "429 rate_limit_error"],
          [kind |-> "never"]}

\* The provider behaviours every well-formed body is run against.
CoreOutcomes ==
    {[kind |-> "resolve", content |-> <<TextBlock(DocApp)>>],
     [kind |-> "resolve",
      content |-> <<TextBlock("Sure! Here's your app: {not valid json")>>],
     [kind |-> "reject", message |-> "429 rate_limit_error"],
     [kind |-> "never"]}

\* Math.random().toString(36).substring(2, 15)
RandomTokens == {"k3j9x2m4p7q1z", "a8b7c6d5e4f3g"}

\* No title is being assembled, no download served.
SlugIdle ==
    /\ title = Undefined
    /\ manifest = Undefined
    /\ reassembled = Undefined
    /\ download = Undefined
    /\ slugPc = "idle"

\* An empty blob store and no publish or listing request.
GalleryIdle ==
    /\ blobs = <<>>
    /\ publish = <<>>
    /\ clock = 0
    /\ listing = Undefined

\* No run under two credentials.
CredentialIdle ==
    /\ draws = Undefined
    /\ runs = <<>>

Init ==
    /\ CredentialIdle
    /\ SlugIdle
    /\ GalleryIdle
    /\ apiKey \in {Undefined, JStr("sk-ant-api03-A")}
    /\ method \in {"POST", "GET"}
    /\ \/ body \in FullBodies /\ provider \in CoreOutcomes
       \/ body \in PartialBodies /\ provider \in ProviderOutcomes
    \* one representative of the requests that never reach the provider
    /\ (method # "POST" \/ ~Truthy(apiKey) \/ body.idea.t # "string")
          => (provider = [kind |-> "never"] /\ body \in PartialBodies)
    /\ method # "POST" => body = [idea |-> Undefined, theme |-> Undefined, layout |-> Undefined]
    /\ pc = "request"
    /\ appType = Undefined
    /\ appData = Undefined
    /\ apiCalls = 0
    /\ callPending = FALSE
    /\ timerArmed = FALSE
    /\ startTime = 0
    /\ now = 0
    /\ steps = {}
    /\ responses = <<>>

(***************************************************************************)
(* Actions                                                                 *)
(***************************************************************************)
\* Mutant: the credential check is skipped.
MissingApiKeyUnchecked(key) == FALSE

\* if (!process.env.ANTHROPIC_API_KEY)
MissingApiKey(key) == ~Truthy(key)

\* Mutant: the promise that loses the race still runs the catch branch.
RaceLoserResponds(sent, message, reqBody, t) ==
    Append(sent, Respond(500, JObj([error |-> JStr("Generation failed"),
                                    details |-> JStr(message)])))

\* What a settled Promise.race does with the promise that settles later.
RaceLoser(sent, message, reqBody, t) == sent

\* handler, from its entry to the await of the race or to an early response.
HandleRequest ==
    /\ pc = "request"
    /\ IF method # "POST"
       THEN /\ responses' = Append(responses,
                               Respond(405, JObj([error |-> JStr("Method not allowed")])))
            /\ pc' = "responded"
            /\ UNCHANGED <<appType, apiCalls, callPending, timerArmed, startTime, steps>>
       ELSE IF MissingApiKey(apiKey)
       THEN /\ responses' = Append(responses,
                               Respond(500, JObj([error |-> JStr("Missing API key")])))
            /\ pc' = "responded"
            /\ UNCHANGED <<appType, apiCalls, callPending, timerArmed, startTime, steps>>
       ELSE IF body.idea.t # "string"
       THEN \* detectAppType(idea) throws on idea.toLowerCase()
            /\ \E rnd \in RandomTokens :
                 responses' = Append(responses,
                    CatchBranch("Cannot read properties of undefined (reading 'toLowerCase')",
                                body, now, rnd).response)
            /\ steps' = steps \cup {"detectAppType"}
            /\ pc' = "responded"
            /\ UNCHANGED <<appType, apiCalls, callPending, timerArmed, startTime>>
       ELSE /\ appType' = JStr(detectAppType(body.idea.v))
            /\ steps' = steps \cup {"detectAppType", "getAppSpecificRequirements",
                                    "messages.create"}
            /\ startTime' = now
            /\ apiCalls' = apiCalls + 1
            /\ callPending' = TRUE
            /\ timerArmed' = TRUE
            /\ pc' = "awaiting"
            /\ UNCHANGED responses
    /\ UNCHANGED <<apiKey, method, body, provider, appData, now>>
    /\ UNCHANGED <<slugVars, galleryVars, credVars>>

\* messages.create resolves first: the handler continues after the await.
ProviderResolves ==
    /\ pc = "awaiting" /\ callPending /\ provider.kind = "resolve"
    /\ \E rnd \in RandomTokens :
         LET r == AfterAwait(provider.content, body, now - startTime, now, rnd)
             c == CatchBranch(r.message, body, now, rnd)
         IN /\ responses' = Append(responses, IF r.threw THEN c.response ELSE r.response)
            /\ steps' = steps \cup r.used \cup (IF r.threw THEN c.used ELSE {})
            /\ appData' = r.appData
    /\ callPending' = FALSE
    /\ pc' = "responded"
    /\ UNCHANGED <<apiKey, method, body, provider, appType, apiCalls, timerArmed, startTime,
                   now>>
    /\ UNCHANGED <<slugVars, galleryVars, credVars>>

\* Mutant: a rejected call is tried again.
ProviderRejectsRetries ==
    /\ pc = "awaiting" /\ callPending /\ provider.kind = "reject"
    /\ apiCalls < 3
    /\ apiCalls' = apiCalls + 1
    /\ steps' = steps \cup {"retry"}
    /\ UNCHANGED <<apiKey, method, body, provider, pc, appType, appData, callPending,
                   timerArmed, startTime, now, responses>>
    /\ UNCHANGED <<slugVars, galleryVars, credVars>>

\* messages.create rejects first: the await throws into the catch branch.
ProviderRejects ==
    /\ pc = "awaiting" /\ callPending /\ provider.kind = "reject"
    /\ \E rnd \in RandomTokens :
         LET c == CatchBranch(provider.message, body, now, rnd)
         IN /\ responses' = Append(responses, c.response)
            /\ steps' = steps \cup c.used
    /\ callPending' = FALSE
    /\ pc' = "responded"
    /\ UNCHANGED <<apiKey, method, body, provider, appType, appData, apiCalls, timerArmed,
                   startTime, now>>
    /\ UNCHANGED <<slugVars, galleryVars, credVars>>

\* The 25 s timer fires first: the await throws Error('API timeout').
TimerFires ==
    /\ pc = "awaiting" /\ timerArmed /\ now - startTime >= TimeoutMs
    /\ \E rnd \in RandomTokens :
         LET c == CatchBranch("API timeout", body, now, rnd)
         IN /\ responses' = Append(responses, c.response)
            /\ steps' = steps \cup c.used
    /\ timerArmed' = FALSE
    /\ pc' = "responded"
    /\ UNCHANGED <<apiKey, method, body, provider, appType, appData, apiCalls, callPending,
                   startTime, now>>
    /\ UNCHANGED <<slugVars, galleryVars, credVars>>

\* messages.create settles after the race was decided by the timer.
LateProviderSettles ==
    /\ pc = "responded" /\ callPending /\ provider.kind # "never"
    /\ callPending' = FALSE
    /\ responses' = RaceLoser(responses, "late reply", body, now)
    /\ UNCHANGED <<apiKey, method, body, provider, pc, appType, appData, apiCalls,
                   timerArmed, startTime, now, steps>>
    /\ UNCHANGED <<slugVars, galleryVars, credVars>>

\* The timer fires after the race was decided by messages.create.
LateTimerFires ==
    /\ pc = "responded" /\ timerArmed /\ now - startTime >= TimeoutMs
    /\ timerArmed' = FALSE
    /\ responses' = RaceLoser(responses, "API timeout", body, now)
    /\ UNCHANGED <<apiKey, method, body, provider, pc, appType, appData, apiCalls,
                   callPending, startTime, now, steps>>
    /\ UNCHANGED <<slugVars, galleryVars, credVars>>

\* Time passes while the call or the timer is outstanding.
Tick ==
    /\ timerArmed \/ (callPending /\ provider.kind # "never")
    /\ timerArmed => now - startTime < TimeoutMs
    /\ now < MaxNow
    /\ now' = now + TickMs
    /\ UNCHANGED <<apiKey, method, body, provider, pc, appType, appData, apiCalls,
                   callPending, timerArmed, startTime, steps, responses>>
    /\ UNCHANGED <<slugVars, galleryVars, credVars>>

Next ==
    \/ HandleRequest
    \/ ProviderResolves
    \/ ProviderRejects
    \/ TimerFires
    \/ LateProviderSettles
    \/ LateTimerFires
    \/ Tick

Spec == Init /\ [][Next]_vars

FairSpec == Spec /\ WF_vars(HandleRequest) /\ WF_vars(Tick) /\ WF_vars(TimerFires)

(***************************************************************************)
(* detectAppType applied to bounded idea texts                             *)
(***************************************************************************)
MaxFragments == 2

\* Pieces of idea texts: keywords in mixed case, filler, and halves of a keyword.
Fragments ==
    {"todo", "Weather", "TRACK", "food", "Note", "timer", "calculator", "event",
     "money", "song", " my ", "to", "do"}

RECURSIVE IdeasOfLength(_)
IdeasOfLength(n) ==
    IF n = 0 THEN {""}
    ELSE {a \o f : a \in IdeasOfLength(n - 1), f \in Fragments}

\* Every keyword of every rule, inside a sentence, in lower and in mixed case.
KeywordIdeas ==
    UNION {{"My " \o k \o "s app", "A " \o "X" \o k, k}
             : k \in UNION {Rules[i].keywords : i \in 1..Len(Rules)}}
    \cup {"My TASK list", "Bird Song logger", "POMODORO", "Cooking Journal",
          "An Expense and Budget CALENDAR", "Audio Habit Recipe"}

ClassifierIdeas == KeywordIdeas \cup UNION {IdeasOfLength(n) : n \in 0..MaxFragments}

NoBody == [idea |-> Undefined, theme |-> Undefined, layout |-> Undefined]

InitPure ==
    /\ apiKey = Undefined
    /\ method = "POST"
    /\ provider = [kind |-> "never"]
    /\ appData = Undefined
    /\ apiCalls = 0
    /\ callPending = FALSE
    /\ timerArmed = FALSE
    /\ startTime = 0
    /\ now = 0
    /\ steps = {}
    /\ responses = <<>>

InitClassify ==
    /\ InitPure
    /\ CredentialIdle
    /\ SlugIdle
    /\ GalleryIdle
    /\ body \in {[NoBody EXCEPT !.idea = JStr(i)] : i \in ClassifierIdeas}
    /\ appType = Undefined
    /\ pc = "detectAppType"

ClassifyIdea ==
    /\ pc = "detectAppType"
    /\ appType' = JStr(detectAppType(body.idea.v))
    /\ pc' = "classified"
    /\ UNCHANGED <<apiKey, method, body, provider, appData, apiCalls, callPending,
                   timerArmed, startTime, now, steps, responses>>
    /\ UNCHANGED <<slugVars, galleryVars, credVars>>

SpecClassify == InitClassify /\ [][ClassifyIdea]_vars

(***************************************************************************)
(* generateEnhancedFallback applied to every category, theme and layout    *)
(***************************************************************************)
FallbackIdeas == {"", "A todo app for groceries", "Weather for my city"}

InitFallback ==
    /\ InitPure
    /\ CredentialIdle
    /\ SlugIdle
    /\ GalleryIdle
    /\ body \in [idea : {JStr(i) : i \in FallbackIdeas},
                 theme : {JStr(t) : t \in Themes},
                 layout : {JStr(l) : l \in Layouts}]
    /\ appType \in {JStr(c) : c \in AppCategories}
    /\ pc = "generateEnhancedFallback"

SynthesizeFallback ==
    /\ pc = "generateEnhancedFallback"
    /\ appData' = generateEnhancedFallback(body.idea.v, body.theme, body.layout, appType.v)
    /\ pc' = "synthesized"
    /\ UNCHANGED <<apiKey, method, body, provider, appType, apiCalls, callPending,
                   timerArmed, startTime, now, steps, responses>>
    /\ UNCHANGED <<slugVars, galleryVars, credVars>>

SpecFallback == InitFallback /\ [][SynthesizeFallback]_vars

(***************************************************************************)
(* The bundle and its manifest                                             *)
(***************************************************************************)
\* The first position at which k occurs in s, 0 when it does not occur.
IndexOf(s, k) ==
    LET hits == {i \in 1..(Len(s) - Len(k) + 1) : SubSeq(s, i, i + Len(k) - 1) = k}
    IN IF hits = {} THEN 0 ELSE CHOOSE i \in hits : \A j \in hits : i <= j

\* The last position at which k occurs in s, 0 when it does not occur.
LastIndexOf(s, k) ==
    LET hits == {i \in 1..(Len(s) - Len(k) + 1) : SubSeq(s, i, i + Len(k) - 1) = k}
    IN IF hits = {} THEN 0 ELSE CHOOSE i \in hits : \A j \in hits : i >= j

\* The startup command a manifest text declares under scripts.dev, "" if none.
StartupCommand(packageJsonText) ==
    LET key == "\"dev\": \""
        at == IndexOf(packageJsonText, key)
        rest == SubSeq(packageJsonText, at + Len(key), Len(packageJsonText))
    IN IF at = 0 THEN "" ELSE SubSeq(rest, 1, IndexOf(rest, "\"") - 1)

\* The file a startup command runs: its last word.
EntryPoint(command) == SubSeq(command, LastIndexOf(command, " ") + 1, Len(command))


(***************************************************************************)
(* The project name of a title: the generation handler's package.json,     *)
(* generatePackageJson and the download handler's attachment filename      *)
(***************************************************************************)
\* generatePackageJson(title): JSON.stringify({ name, version, type, ... }, null, 2)
generatePackageJson(appTitle) ==
    "{\n  \"name\": \"" \o replaceNonAlnum(toLowerCase(appTitle)) \o "\",\n"
      \o "  \"version\": \"1.0.0\",\n  \"type\": \"module\",\n  \"scripts\": {\n"
      \o "    \"dev\": \"bun run --hot src/index.tsx\",\n"
      \o "    \"build\": \"bun build src/index.tsx --outdir build --minify\",\n"
      \o "    \"preview\": \"bun run build && bun run build/index.js\"\n  },\n"
      \o "  \"dependencies\": {\n    \"hono\": \"^3.12.0\",\n    \"react\": \"^18.2.0\",\n"
      \o "    \"react-dom\": \"^18.2.0\",\n    \"lucide-react\": \"^0.263.1\"\n  },\n"
      \o "  \"devDependencies\": {\n    \"@types/react\": \"^18.2.0\",\n"
      \o "    \"@types/react-dom\": \"^18.2.0\",\n    \"typescript\": \"^5.0.0\"\n  }\n}"

\* The Content-Disposition header of the download response.
contentDisposition(appTitle) ==
    "attachment; filename=\"" \o replaceNonAlnum(appTitle) \o "-vibe-app.zip\""

\* The download handler for an appData with the given title: the package.json
\* of the generated project and the headers set, or the answer of its catch.
downloadApp(appTitle) ==
    IF appTitle.t # "string"
    THEN \* generatePackageJson throws on title.toLowerCase()
         Respond(500, JObj([error |-> JStr("Failed to generate download")]))
    ELSE [status |-> 200,
          headers |-> [ContentType |-> "application/zip",
                       ContentDisposition |-> contentDisposition(appTitle.v)],
          packageJson |-> generatePackageJson(appTitle.v)]

\* Bound of the model: the number of pieces of a title.
MaxTitleParts == 3

\* Pieces of titles: letters in both cases, a digit, and three characters
\* outside a-z, A-Z, 0-9.
TitleParts == {"My", "App", "2", " ", "&", "-"}

RECURSIVE TitlesOfLength(_)
TitlesOfLength(n) ==
    IF n = 0 THEN {""}
    ELSE {a \o f : a \in TitlesOfLength(n - 1), f \in TitleParts}

Titles == UNION {TitlesOfLength(n) : n \in 0..MaxTitleParts}

\* The name a package.json text declares.
NameOf(packageJsonText) ==
    LET key == "\"name\": \""
        rest == SubSeq(packageJsonText, IndexOf(packageJsonText, key) + Len(key),
                       Len(packageJsonText))
    IN SubSeq(rest, 1, IndexOf(rest, "\"") - 1)

HandlerIdle ==
    /\ InitPure
    /\ body = NoBody
    /\ appType = Undefined
    /\ pc = "idle"

InitSlug ==
    /\ HandlerIdle
    /\ CredentialIdle
    /\ GalleryIdle
    /\ title \in {JStr(t) : t \in Titles} \cup {Undefined}
    /\ manifest = Undefined
    /\ reassembled = Undefined
    /\ download = Undefined
    /\ slugPc = "assemble"

\* The package.json entry of projectFiles for an appData with this title.
AssembleManifest ==
    /\ slugPc = "assemble"
    /\ manifest' = packageJson(projectName(title))
    /\ slugPc' = "reassemble"
    /\ UNCHANGED <<title, reassembled, download>>
    /\ UNCHANGED <<handlerVars, galleryVars, credVars>>

\* The same for an appData whose title is the name just assembled.
ReassembleManifest ==
    /\ slugPc = "reassemble"
    /\ reassembled' = packageJson(projectName(JStr(NameOf(manifest))))
    /\ slugPc' = "download"
    /\ UNCHANGED <<title, manifest, download>>
    /\ UNCHANGED <<handlerVars, galleryVars, credVars>>

\* The download handler for an appData with this title.
DownloadApp ==
    /\ slugPc = "download"
    /\ download' = downloadApp(title)
    /\ slugPc' = "done"
    /\ UNCHANGED <<title, manifest, reassembled>>
    /\ UNCHANGED <<handlerVars, galleryVars, credVars>>

NextSlug == AssembleManifest \/ ReassembleManifest \/ DownloadApp

SpecSlug == InitSlug /\ [][NextSlug]_vars

(***************************************************************************)
(* The gallery: the publish handler, the listing handler and the blob      *)
(* store they share                                                        *)
(***************************************************************************)
ListLimit == 50
IndexLimit == 50

Pad2(n) == IF n < 10 THEN "0" \o ToString(n) ELSE ToString(n)
Pad3(n) == IF n < 10 THEN "00" \o ToString(n) ELSE IF n < 100 THEN "0" \o ToString(n)
           ELSE ToString(n)

\* new Date().toISOString() at t ms after 2024-01-01T00:00:00.000Z, t < 60000.
toISOString(t) == "2024-01-01T00:00:" \o Pad2(t \div 1000) \o "." \o Pad3(t % 1000) \o "Z"

\* The value of every digit (made a table once by @@).
DigitValues == [c \in CharsOf(DigitChars) |-> IndexOf(DigitChars, c) - 1] @@ <<>>

DigitValue(c) == DigitValues[c]

\* new Date(iso).getTime(), in ms after 2024-01-01T00:00:00.000Z.
getTime(iso) ==
    (DigitValue(CharAt(iso, 18)) * 10 + DigitValue(CharAt(iso, 19))) * 1000
      + DigitValue(CharAt(iso, 21)) * 100 + DigitValue(CharAt(iso, 22)) * 10
      + DigitValue(CharAt(iso, 23))

\* The escapes of encodeURIComponent for the characters that occur.
UriEscapes ==
    ("\n" :> "%0A") @@ (" " :> "%20") @@ ("<" :> "%3C") @@ (">" :> "%3E")
    @@ ("=" :> "%3D") @@ ("\"" :> "%22") @@ ("/" :> "%2F") @@ (":" :> "%3A")
    @@ ("#" :> "%23") @@ ("&" :> "%26") @@ ("," :> "%2C")

RECURSIVE encodeURIComponentRange(_, _, _)
encodeURIComponentRange(s, lo, hi) ==
    IF lo > hi THEN ""
    ELSE IF lo = hi
    THEN IF CharAt(s, lo) \in DOMAIN UriEscapes THEN UriEscapes[CharAt(s, lo)]
         ELSE CharAt(s, lo)
    ELSE LET mid == (lo + hi) \div 2
         IN encodeURIComponentRange(s, lo, mid) \o encodeURIComponentRange(s, mid + 1, hi)

encodeURIComponent(s) == encodeURIComponentRange(s, 1, Len(s))

\* generateThumbnail(appData), for an appData with a config.
generateThumbnail(data) ==
    LET theme == Get(Get(data, "config"), "theme")
        colors == ("minimal" :> "#f8f9fa") @@ ("playful" :> "#ff6b9d")
                  @@ ("professional" :> "#3b82f6") @@ ("artistic" :> "#f59e0b")
                  @@ ("techy" :> "#10b981")
        fill == IF theme.t = "string" /\ theme.v \in DOMAIN colors THEN colors[theme.v]
                ELSE "undefined"
    IN "data:image/svg+xml," \o encodeURIComponent(
         "\n    <svg width=\"200\" height=\"120\" xmlns=\"http://www.w3.org/2000/svg\">"
         \o "\n      <rect width=\"200\" height=\"120\" fill=\"" \o fill \o "\"/>"
         \o "\n      <text x=\"100\" y=\"60\" text-anchor=\"middle\" fill=\"white\""
         \o " font-size=\"14\" font-family=\"Arial\">"
         \o "\n        " \o Str(Get(data, "title"))
         \o "\n      </text>\n    </svg>\n  ")

RECURSIVE JsonValue(_)
\* The value a JSON text of x parses to: members whose value is undefined are
\* left out of objects, undefined elements of arrays become null.
JsonValue(x) ==
    CASE x.t = "object" ->
           JObj([k \in {m \in DOMAIN x.v : x.v[m].t # "undefined"} |-> JsonValue(x.v[k])])
      [] x.t = "array" ->
           JArr([i \in 1..Len(x.v) |->
                   IF x.v[i].t = "undefined" THEN JNull ELSE JsonValue(x.v[i])])
      [] OTHER -> x

\* JSON.stringify(value): a blob's content, given by the value it parses to.
JSONstringify(x) == [json |-> JsonValue(x)]

\* await response.json() of a fetched blob.
responseJson(content) == content.json

\* The pathname of an entry and the url put returns for a pathname.
EntryPath(id) == "apps/" \o id \o ".json"
IndexPath == "public-apps.json"
BlobUrl(pathname) == "https://store.public.blob.vercel-storage.com/" \o pathname

\* The characters of pathnames in the order of their codes.
PathChars == "-./0123456789abcdefghijklmnopqrstuvwxyz"

\* The place of every character of pathnames in that order.
PathCharRank == [c \in CharsOf(PathChars) |-> IndexOf(PathChars, c)] @@ <<>>

RECURSIVE PathLess(_, _, _)
\* a sorts before b in the order of the store, comparing from position i on.
PathLess(a, b, i) ==
    IF i > Len(b) THEN FALSE
    ELSE IF i > Len(a) THEN TRUE
    ELSE IF CharAt(a, i) = CharAt(b, i) THEN PathLess(a, b, i + 1)
    ELSE PathCharRank[CharAt(a, i)] < PathCharRank[CharAt(b, i)]

RECURSIVE SetToSeq(_)
\* The members of a set, one after another.
SetToSeq(S) ==
    IF S = {} THEN <<>>
    ELSE LET x == CHOOSE y \in S : TRUE IN <<x>> \o SetToSeq(S \ {x})

RECURSIVE MergePaths(_, _, _)
\* Merge two sequences of pathnames that are in the order of the store; the
\* pathnames agree up to position from - 1.
MergePaths(a, b, from) ==
    IF Len(a) = 0 THEN b
    ELSE IF Len(b) = 0 THEN a
    ELSE IF PathLess(b[1], a[1], from) THEN <<b[1]>> \o MergePaths(a, Tail(b), from)
    ELSE <<a[1]>> \o MergePaths(Tail(a), b, from)

RECURSIVE SortPaths(_, _)
SortPaths(q, from) ==
    IF Len(q) <= 1 THEN q
    ELSE LET mid == Len(q) \div 2
         IN MergePaths(SortPaths(SubSeq(q, 1, mid), from),
                       SortPaths(SubSeq(q, mid + 1, Len(q)), from), from)

\* list({ prefix, limit }) on a store: the first limit pathnames with the
\* prefix, in the order of the store.
ListBlobs(store, prefix, limit) ==
    LET paths == {q \in DOMAIN store : StartsWithAt(q, 1, prefix)}
        sorted == SortPaths(SetToSeq(paths), Len(prefix) + 1)
    IN SubSeq(sorted, 1, IF Len(sorted) < limit THEN Len(sorted) ELSE limit)

RECURSIVE MergeNewestFirst(_, _)
\* Merge two sequences of <<time, app>> that are newest first; of two apps of
\* the same time the one of a stays first.
MergeNewestFirst(a, b) ==
    IF Len(a) = 0 THEN b
    ELSE IF Len(b) = 0 THEN a
    ELSE IF b[1][1] - a[1][1] > 0 THEN <<b[1]>> \o MergeNewestFirst(a, Tail(b))
    ELSE <<a[1]>> \o MergeNewestFirst(Tail(a), b)

RECURSIVE SortTimed(_)
SortTimed(q) ==
    IF Len(q) <= 1 THEN q
    ELSE LET mid == Len(q) \div 2
         IN MergeNewestFirst(SortTimed(SubSeq(q, 1, mid)),
                             SortTimed(SubSeq(q, mid + 1, Len(q))))

\* Mutant: the apps are returned in the order of list.
SortNewestFirstUnsorted(apps) == apps

\* apps.sort((a, b) => new Date(b.createdAt).getTime() - new Date(a.createdAt).getTime()):
\* a stable sort with that comparator.
SortNewestFirst(apps) ==
    LET timed == SortTimed([i \in 1..Len(apps) |->
                              <<getTime(Get(apps[i], "createdAt").v), apps[i]>>])
    IN [i \in 1..Len(apps) |-> timed[i][2]]

\* The listing handler on a store whose list call succeeds.
publicApps(store) ==
    LET listed == ListBlobs(store, "apps/", ListLimit)
        apps == [i \in 1..Len(listed) |-> responseJson(store[listed[i]])]
    IN Respond(200, JObj([success |-> JBool(TRUE), apps |-> JArr(SortNewestFirst(apps))]))

\* The publicApp object of the publish handler, or the TypeError of reading
\* appData.config.theme.
publicApp(reqBody, id, nowMs) ==
    LET data == reqBody.appData
        config == Get(data, "config")
    IN IF data.t \in {"undefined", "null"} \/ config.t \in {"undefined", "null"}
       THEN [threw |-> TRUE]
       ELSE [threw |-> FALSE,
             value |-> JObj([id |-> JStr(id),
                             title |-> reqBody.title,
                             theme |-> Get(config, "theme"),
                             layout |-> Get(config, "layout"),
                             description |-> Get(data, "description"),
                             thumbnail |-> JStr(generateThumbnail(data)),
                             files |-> Get(data, "files"),
                             createdAt |-> JStr(toISOString(nowMs)),
                             featured |-> JBool(FALSE)])]

\* getUpdatedAppsList(newApp), for the outcome of fetching the current list.
getUpdatedAppsList(newApp, fetched) ==
    IF fetched.ok /\ fetched.json.t = "array"
    THEN LET all == <<newApp>> \o fetched.json.v
         IN JArr(SubSeq(all, 1, IF Len(all) < IndexLimit THEN Len(all) ELSE IndexLimit))
    ELSE JArr(<<newApp>>)

\* generateAppId(): Math.random().toString(36).substring(2, 15)
AppIdTokens == {"a8b7c6d5e4f3g", "z3j9x2m4p7q1k"}

\* The requests a publisher sends: apps as the generation handler returns them
\* (with an id and a timestamp of their own), and one without a config.
GeneratedApp(appTitle, theme, layout) ==
    JObj([title |-> JStr(appTitle),
          description |-> JStr("A " \o theme \o " app"),
          config |-> JObj([theme |-> JStr(theme), layout |-> JStr(layout),
                           features |-> JArr(<<JStr("Modern Design")>>)]),
          files |-> JObj(("package.json" :> JStr("{\"name\": \"fallback-app\", \"version\": \"1.0.0\"}"))
                         @@ ("src/App.tsx" :> JStr("export default function App() { return null; }"))
                         @@ ("README.md" :> JStr("# Fallback App"))),
          id |-> JStr("k3j9x2m4p7q1z"),
          timestamp |-> JNum(12500)])

PublishRequests ==
    {[method |-> "POST",
      body |-> [title |-> JStr("Grocery List"),
                appData |-> GeneratedApp("Grocery List", "minimal", "dual")]],
     [method |-> "POST",
      body |-> [title |-> JStr("Weather Dashboard"),
                appData |-> GeneratedApp("Weather Dashboard", "techy", "quad")]],
     [method |-> "POST",
      body |-> [title |-> JStr("No config"),
                appData |-> JObj([title |-> JStr("No config")])]],
     [method |-> "GET", body |-> [title |-> Undefined, appData |-> Undefined]]}

Publishers == {"p1", "p2"}

\* Bound of the model: the ticks of the clock in a run.
MaxTicks == 1
ClockStart == 51000

\* Entries stored by earlier publishes, one per second, the k-th at k s; their
\* ids ascend with k.
StoredId(k) == "m" \o Pad2(k) \o "q8w2e5r7t1"

StoredThumbnail == generateThumbnail(GeneratedApp("Stored App", "playful", "triple"))

StoredEntry(k) ==
    JsonValue(JObj([id |-> JStr(StoredId(k)),
                    title |-> JStr("Stored App"),
                    theme |-> JStr("playful"),
                    layout |-> JStr("triple"),
                    description |-> JStr("A playful app"),
                    thumbnail |-> JStr(StoredThumbnail),
                    files |-> JObj("README.md" :> JStr("# Stored App")),
                    createdAt |-> JStr(toISOString(k * 1000)),
                    featured |-> JBool(FALSE)]))

RECURSIVE StoredEntries(_)
StoredEntries(n) ==
    IF n = 0 THEN <<>>
    ELSE (EntryPath(StoredId(n)) :> [json |-> StoredEntry(n)])
           @@ StoredEntries(n - 1)

\* A store after n publishes: the entries and the list of them, newest first.
StoreAfter(n) ==
    IF n = 0 THEN <<>>
    ELSE (IndexPath :> [json |-> JArr([i \in 1..n |-> StoredEntry(n + 1 - i)])])
           @@ StoredEntries(n)

InitialStores ==
    {StoreAfter(0), StoreAfter(ListLimit - 1)}

NoPublish(request) ==
    [pc |-> "request", method |-> request.method, body |-> request.body,
     entry |-> Undefined, url |-> Undefined, list |-> Undefined, response |-> Undefined]

\* Two requests on the empty store, in every combination up to the order of
\* the publishers, and two publishes on the store that is nearly full.
InitGallery ==
    /\ HandlerIdle
    /\ CredentialIdle
    /\ SlugIdle
    /\ blobs \in InitialStores
    /\ publish \in {[p \in Publishers |-> NoPublish(r[p])] : r \in [Publishers -> PublishRequests]}
    /\ publish["p1"].body.title = JStr("Grocery List")
    /\ publish["p2"].body.title # JStr("Grocery List")
    /\ blobs # <<>> => publish["p2"].body.title = JStr("Weather Dashboard")
    /\ clock = ClockStart
    /\ listing = Undefined

SaveFailed == Respond(500, JObj([error |-> JStr("Failed to save app")]))

\* The publish handler from its entry to the put of the entry, or to an
\* early response.
PublishRequest(p) ==
    /\ publish[p].pc = "request"
    /\ IF publish[p].method # "POST"
       THEN publish' = [publish EXCEPT
                          ![p].response = Respond(405, JObj([error |-> JStr("Method not allowed")])),
                          ![p].pc = "responded"]
       ELSE \E id \in AppIdTokens :
              LET app == publicApp(publish[p].body, id, clock) IN
              IF app.threw
              THEN publish' = [publish EXCEPT ![p].response = SaveFailed,
                                              ![p].pc = "responded"]
              ELSE publish' = [publish EXCEPT ![p].entry = app.value,
                                              ![p].pc = "putEntry"]
    /\ UNCHANGED <<blobs, clock, listing>>
    /\ UNCHANGED <<handlerVars, slugVars, credVars>>

\* Mutant: the entry is stored under a key made from the title.
PutEntrySucceedsKeyedByTitle(p) ==
    /\ publish[p].pc = "putEntry"
    /\ LET path == EntryPath(replaceNonAlnum(toLowerCase(Get(publish[p].entry, "title").v)))
       IN /\ blobs' = (path :> JSONstringify(publish[p].entry)) @@ blobs
          /\ publish' = [publish EXCEPT ![p].url = JStr(BlobUrl(path)),
                                        ![p].pc = "fetchIndex"]
    /\ UNCHANGED <<clock, listing>>
    /\ UNCHANGED <<handlerVars, slugVars, credVars>>

\* put(`apps/${publicApp.id}.json`, JSON.stringify(publicApp)) succeeds.
PutEntrySucceeds(p) ==
    /\ publish[p].pc = "putEntry"
    /\ LET path == EntryPath(Get(publish[p].entry, "id").v)
       IN /\ blobs' = (path :> JSONstringify(publish[p].entry)) @@ blobs
          /\ publish' = [publish EXCEPT ![p].url = JStr(BlobUrl(path)),
                                        ![p].pc = "fetchIndex"]
    /\ UNCHANGED <<clock, listing>>
    /\ UNCHANGED <<handlerVars, slugVars, credVars>>

\* The put of the entry rejects: the catch answers.
PutEntryFails(p) ==
    /\ publish[p].pc = "putEntry"
    /\ publish' = [publish EXCEPT ![p].response = SaveFailed, ![p].pc = "responded"]
    /\ UNCHANGED <<blobs, clock, listing>>
    /\ UNCHANGED <<handlerVars, slugVars, credVars>>

\* getUpdatedAppsList(publicApp): the fetch of the current list succeeds with
\* the content of public-apps.json or fails; the put of the new list is sent.
FetchIndex(p) ==
    /\ publish[p].pc = "fetchIndex"
    /\ \E ok \in BOOLEAN :
         LET fetched == IF ok /\ IndexPath \in DOMAIN blobs
                        THEN [ok |-> TRUE, json |-> responseJson(blobs[IndexPath])]
                        ELSE [ok |-> FALSE]
         IN publish' = [publish EXCEPT
                          ![p].list = getUpdatedAppsList(publish[p].entry, fetched),
                          ![p].pc = "putIndex"]
    /\ UNCHANGED <<blobs, clock, listing>>
    /\ UNCHANGED <<handlerVars, slugVars, credVars>>

\* put('public-apps.json', ...) succeeds: the handler responds.
PutIndexSucceeds(p) ==
    /\ publish[p].pc = "putIndex"
    /\ blobs' = (IndexPath :> JSONstringify(publish[p].list)) @@ blobs
    /\ publish' = [publish EXCEPT
                     ![p].response = Respond(200, JObj([success |-> JBool(TRUE),
                                                        appId |-> Get(publish[p].entry, "id"),
                                                        url |-> publish[p].url])),
                     ![p].pc = "responded"]
    /\ UNCHANGED <<clock, listing>>
    /\ UNCHANGED <<handlerVars, slugVars, credVars>>

\* The put of the list rejects: the catch answers.
PutIndexFails(p) ==
    /\ publish[p].pc = "putIndex"
    /\ publish' = [publish EXCEPT ![p].response = SaveFailed, ![p].pc = "responded"]
    /\ UNCHANGED <<blobs, clock, listing>>
    /\ UNCHANGED <<handlerVars, slugVars, credVars>>

\* The listing handler: list, fetch every blob listed, sort, respond.
ListApps ==
    /\ listing = Undefined
    /\ listing' = publicApps(blobs)
    /\ UNCHANGED <<blobs, publish, clock>>
    /\ UNCHANGED <<handlerVars, slugVars, credVars>>

\* The list call or a fetch rejects: the catch answers.
ListAppsFails ==
    /\ listing = Undefined
    /\ listing' = Respond(500, JObj([error |-> JStr("Failed to fetch public apps")]))
    /\ UNCHANGED <<blobs, publish, clock>>
    /\ UNCHANGED <<handlerVars, slugVars, credVars>>

\* A millisecond passes before a request that has yet to read the clock.
ClockTick ==
    /\ \E p \in Publishers : publish[p].pc = "request"
    /\ clock < ClockStart + MaxTicks
    /\ clock' = clock + 1
    /\ UNCHANGED <<blobs, publish, listing>>
    /\ UNCHANGED <<handlerVars, slugVars, credVars>>

NextGallery ==
    \/ \E p \in Publishers : PublishRequest(p)
    \/ \E p \in Publishers : PutEntrySucceeds(p)
    \/ \E p \in Publishers : PutEntryFails(p)
    \/ \E p \in Publishers : FetchIndex(p)
    \/ \E p \in Publishers : PutIndexSucceeds(p)
    \/ \E p \in Publishers : PutIndexFails(p)
    \/ ListApps
    \/ ListAppsFails
    \/ ClockTick

SpecGallery == InitGallery /\ [][NextGallery]_vars

(***************************************************************************)
(* Two runs of the generation handler that differ in the credential only,  *)
(* and the publish of the app each returns                                 *)
(***************************************************************************)
Credentials == {"sk-ant-api03-A", "sk-ant-api03-B"}

\* The requests of the runs: every idea and theme, and the bodies with
\* fields missing.
CredentialBodies == {b \in FullBodies : b.layout = JStr("dual")} \cup PartialBodies

\* What a run meets: the request, what messages.create does, which promise
\* of the race settles first and when, and the value Math.random draws.
Draws ==
    {d \in [method : {"POST"},
            body : CredentialBodies,
            outcome : ProviderOutcomes,
            first : {"messages.create", "timer"},
            at : {0, TimeoutMs},
            rnd : RandomTokens,
            appId : {"z3j9x2m4p7q1k"}] :
       /\ d.body \in FullBodies => d.outcome \in CoreOutcomes
       /\ d.first = "timer" => d.at >= TimeoutMs
       /\ d.first = "messages.create" => d.outcome.kind # "never"}

\* Mutant: the error details quote the credential.
handlerRunEchoesKey(key, reqMethod, reqBody, outcome, first, at, rnd) ==
    Respond(500, JObj([error |-> JStr("Generation failed"),
                       details |-> JStr("invalid x-api-key " \o Str(key))]))

\* The generation handler from its entry to its response, under the
\* credential key: the credential is tested and handed to the provider's
\* client, nothing else reads it.
handlerRun(key, reqMethod, reqBody, outcome, first, at, rnd) ==
    IF reqMethod # "POST"
    THEN Respond(405, JObj([error |-> JStr("Method not allowed")]))
    ELSE IF MissingApiKey(key)
    THEN Respond(500, JObj([error |-> JStr("Missing API key")]))
    ELSE IF reqBody.idea.t # "string"
    THEN CatchBranch("Cannot read properties of undefined (reading 'toLowerCase')",
                     reqBody, 0, rnd).response
    ELSE IF first = "timer"
    THEN CatchBranch("API timeout", reqBody, at, rnd).response
    ELSE IF outcome.kind = "reject"
    THEN CatchBranch(outcome.message, reqBody, at, rnd).response
    ELSE LET r == AfterAwait(outcome.content, reqBody, at, at, rnd)
         IN IF r.threw THEN CatchBranch(r.message, reqBody, at, rnd).response
            ELSE r.response

\* new Anthropic({ apiKey }): the credential the provider's client is given,
\* none when the handler answers before it creates the client.
clientKey(key, reqMethod) ==
    IF reqMethod # "POST" \/ MissingApiKey(key) THEN Undefined ELSE key

\* A run that has not started: what it will send, the credential its client
\* gets, and what the publish and the download of its app store and send.
NewRun ==
    [pc |-> "request", clientKey |-> Undefined, response |-> Undefined,
     stored |-> Undefined, download |-> Undefined]

InitCredential ==
    /\ HandlerIdle
    /\ SlugIdle
    /\ GalleryIdle
    /\ draws \in Draws
    /\ runs = [k \in Credentials |-> NewRun]

\* The run of the handler under credential k.
CredentialRun(k) ==
    /\ runs[k].pc = "request"
    /\ runs' = [runs EXCEPT
                  ![k].response = handlerRun(JStr(k), draws.method, draws.body, draws.outcome,
                                             draws.first, draws.at, draws.rnd),
                  ![k].clientKey = clientKey(JStr(k), draws.method),
                  ![k].pc = "responded"]
    /\ UNCHANGED <<draws, handlerVars, slugVars, galleryVars>>

\* The app a run returned is published: the entry the publish handler stores
\* for { title: app.title, appData: app }.
PublishRun(k) ==
    /\ runs[k].pc = "responded"
    /\ runs[k].response.status = 200
    /\ LET app == Get(runs[k].response.json, "app")
           made == publicApp([title |-> Get(app, "title"), appData |-> app],
                             draws.appId, ClockStart)
       IN runs' = [runs EXCEPT
                     ![k].stored = IF made.threw THEN <<>>
                                   ELSE EntryPath(draws.appId) :> JSONstringify(made.value),
                     ![k].pc = "published"]
    /\ UNCHANGED <<draws, handlerVars, slugVars, galleryVars>>

NextCredential ==
    \/ \E k \in Credentials : CredentialRun(k)
    \/ \E k \in Credentials : PublishRun(k)

SpecCredential == InitCredential /\ [][NextCredential]_vars

(***************************************************************************)
(* The download handler and the project it generates                       *)
(***************************************************************************)
\* generateReactApp(theme, layout): the template of src/App.tsx.
generateReactApp(theme, layout) ==
    "import React from 'react';\n"
      \o "import { VibeCard, VibeButton, VibeGrid } from './components';\n"
      \o "\n"
      \o "export default function App() {\n"
      \o "  return (\n"
      \o "    <div className=\"min-h-screen bg-gradient-to-br from-purple-100 to-pink-100 p-6\">\n"
      \o "      <div className=\"max-w-4xl mx-auto\">\n"
      \o "        <header className=\"text-center mb-8\">\n"
      \o "          <h1 className=\"text-4xl font-bold text-purple-900 mb-4\">\n"
      \o "            Your "
      \o Str(theme)
      \o " App\n"
      \o "          </h1>\n"
      \o "          <p className=\"text-purple-700\">\n"
      \o "            Generated with "
      \o Str(layout)
      \o " layout and beautiful design\n"
      \o "          </p>\n"
      \o "        </header>\n"
      \o "        \n"
      \o "        <VibeGrid columns=\""
      \o Str(layout)
      \o "\" gap=\"md\">\n"
      \o "          <VibeCard>\n"
      \o "            <h3 className=\"font-semibold text-purple-900 mb-2\">Feature 1</h3>\n"
      \o "            <p className=\"text-purple-700 mb-4\">Your app feature description</p>\n"
      \o "            <VibeButton variant=\"primary\">Get Started</VibeButton>\n"
      \o "          </VibeCard>\n"
      \o "          <VibeCard>\n"
      \o "            <h3 className=\"font-semibold text-purple-900 mb-2\">Feature 2</h3>\n"
      \o "            <p className=\"text-purple-700 mb-4\">Another great feature</p>\n"
      \o "            <VibeButton variant=\"secondary\">Learn More</VibeButton>\n"
      \o "          </VibeCard>\n"
      \o "          <VibeCard>\n"
      \o "            <h3 className=\"font-semibold text-purple-900 mb-2\">Feature 3</h3>\n"
      \o "            <p className=\"text-purple-700 mb-4\">Amazing functionality</p>\n"
      \o "            <VibeButton variant=\"accent\">Try It</VibeButton>\n"
      \o "          </VibeCard>\n"
      \o "        </VibeGrid>\n"
      \o "      </div>\n"
      \o "    </div>\n"
      \o "  );\n"
      \o "}"

\* Mutant: the project is the bundle the app came with.
generateVibeAppFromFiles(data) ==
    [threw |-> FALSE, files |-> Spread(Get(data, "files"))]

\* generateVibeApp(appData), the generateCompleteProject of the download
\* handler: the files package.json and src/App.tsx of the thirteen it returns
\* (the other eleven are texts that depend on title, description and theme
\* at most), or the TypeError of destructuring no appData or of
\* title.toLowerCase().
generateVibeApp(data) ==
    IF data.t \in {"undefined", "null"} \/ Get(data, "title").t # "string"
    THEN [threw |-> TRUE]
    ELSE [threw |-> FALSE,
          files |-> ("package.json" :> JStr(generatePackageJson(Get(data, "title").v)))
                    @@ ("src/App.tsx" :>
                          JStr(generateReactApp(Get(data, "theme"), Get(data, "layout"))))]

\* createProjectZip(files): the archive, given by the file at each path.
createProjectZip(files) == [path \in DOMAIN files |-> files[path].v]

\* The download handler on a POST with this appData.
downloadProject(data) ==
    LET project == generateVibeApp(data) IN
    IF project.threw
    THEN Respond(500, JObj([error |-> JStr("Failed to generate download")]))
    ELSE [status |-> 200,
          headers |-> [ContentType |-> "application/zip",
                       ContentDisposition |-> contentDisposition(Get(data, "title").v)],
          zip |-> createProjectZip(project.files)]

\* The generation handler is run once, under one credential.
InitDownload ==
    /\ HandlerIdle
    /\ SlugIdle
    /\ GalleryIdle
    /\ draws \in Draws
    /\ runs = [k \in {"sk-ant-api03-A"} |-> NewRun]

\* The app a run returned is sent to the download handler as appData.
DownloadRun(k) ==
    /\ runs[k].pc = "responded"
    /\ runs[k].response.status = 200
    /\ runs' = [runs EXCEPT
                  ![k].download = downloadProject(Get(runs[k].response.json, "app")),
                  ![k].pc = "downloaded"]
    /\ UNCHANGED <<draws, handlerVars, slugVars, galleryVars>>

NextDownload ==
    \/ \E k \in DOMAIN runs : CredentialRun(k)
    \/ \E k \in DOMAIN runs : DownloadRun(k)

SpecDownload == InitDownload /\ [][NextDownload]_vars

(***************************************************************************)
(* saveApp and deleteApp of the storage library                            *)
(***************************************************************************)
\* saveApp(appData) with the id generateAppId() returns and the time of
\* new Date(): the publicApp it builds, { id: appId, ...appData, createdAt,
\* featured } (a later member replaces an earlier one of the same name), the
\* pathname it puts it at and what it returns.
saveApp(data, appId, nowMs) ==
    LET app == JObj([createdAt |-> JStr(toISOString(nowMs)), featured |-> JBool(FALSE)]
                    @@ Spread(data) @@ [id |-> JStr(appId)])
        path == EntryPath(appId)
    IN [path |-> path,
        content |-> JSONstringify(app),
        returned |-> [appId |-> JStr(appId), url |-> JStr(BlobUrl(path)), app |-> app]]

\* del(`apps/${appId}.json`) on a store: the blob at that pathname is gone,
\* every other blob stays.
deleteApp(store, appId) ==
    [q \in DOMAIN store \ {EntryPath(appId)} |-> store[q]]

\* The apps passed to saveApp: apps as the generation handler returns them,
\* with an id and a timestamp of their own, and the same without these.
SavedApps ==
    LET generated == {GeneratedApp(t, th, l) :
                        t \in {"Grocery List", "Weather Dashboard"}, th \in Themes, l \in Layouts}
    IN generated
       \cup {JObj([m \in DOMAIN g.v \ {"id", "timestamp"} |-> g.v[m]]) : g \in generated}

Callers == {"c1"}

InitStorage ==
    /\ HandlerIdle
    /\ CredentialIdle
    /\ SlugIdle
    /\ blobs \in {StoreAfter(0), StoreAfter(1)}
    /\ publish \in [Callers -> {[pc |-> "saveApp", appData |-> d, saved |-> Undefined,
                                 deleted |-> Undefined] : d \in SavedApps}]
    /\ clock = ClockStart
    /\ listing = Undefined

\* saveApp, its put resolving.
SaveApp(c) ==
    /\ publish[c].pc = "saveApp"
    /\ \E id \in AppIdTokens :
         LET s == saveApp(publish[c].appData, id, clock)
         IN /\ blobs' = (s.path :> s.content) @@ blobs
            /\ publish' = [publish EXCEPT ![c].saved = s.returned, ![c].pc = "deleteApp"]
    /\ UNCHANGED <<clock, listing>>
    /\ UNCHANGED <<handlerVars, slugVars, credVars>>

\* saveApp, its put rejecting: saveApp rejects and nothing is stored.
SaveAppFails(c) ==
    /\ publish[c].pc = "saveApp"
    /\ publish' = [publish EXCEPT ![c].pc = "rejected"]
    /\ UNCHANGED <<blobs, clock, listing>>
    /\ UNCHANGED <<handlerVars, slugVars, credVars>>

\* deleteApp called with the id field of the entry saveApp stored.
DeleteApp(c) ==
    /\ publish[c].pc = "deleteApp"
    /\ blobs' = deleteApp(blobs, Get(publish[c].saved.app, "id").v)
    /\ publish' = [publish EXCEPT ![c].deleted = JBool(TRUE), ![c].pc = "done"]
    /\ UNCHANGED <<clock, listing>>
    /\ UNCHANGED <<handlerVars, slugVars, credVars>>

\* deleteApp, its del rejecting: the catch returns false.
DeleteAppFails(c) ==
    /\ publish[c].pc = "deleteApp"
    /\ publish' = [publish EXCEPT ![c].deleted = JBool(FALSE), ![c].pc = "done"]
    /\ UNCHANGED <<blobs, clock, listing>>
    /\ UNCHANGED <<handlerVars, slugVars, credVars>>

NextStorage ==
    \/ \E c \in Callers : SaveApp(c)
    \/ \E c \in Callers : SaveAppFails(c)
    \/ \E c \in Callers : DeleteApp(c)
    \/ \E c \in Callers : DeleteAppFails(c)

SpecStorage == InitStorage /\ [][NextStorage]_vars

(***************************************************************************)
(* Properties                                                              *)
(***************************************************************************)
IsSuccess(r) == r.status = 200 /\ Get(r.json, "success") = JBool(TRUE)
IsError(r) == Get(r.json, "error").t # "undefined"
FilesOf(r) == Get(Get(r.json, "app"), "files")
NonEmptyText(x) == x.t = "string" /\ x.v # ""

FieldsPresent == body.idea.t # "undefined" /\ body.theme.t # "undefined"
                   /\ body.layout.t # "undefined"
ValidRequest == method = "POST" /\ ~MissingApiKey(apiKey) /\ FieldsPresent

\* C1: a POST with the credential configured and idea, theme and layout present
\* is answered with success: true and an app, never with an error object,
\* whatever the outcome of the model call.
C1_NeverAnError ==
    ValidRequest =>
      \A i \in DOMAIN responses :
        IsSuccess(responses[i]) /\ ~IsError(responses[i])

\* C2: with a valid request, the credential configured and a model that never
\* answers, the handler eventually responds, when the 25000 ms timer fires,
\* with success: true and a non-empty files map, and never with an error.
C2_TimeoutResponds ==
    /\ (ValidRequest /\ provider.kind = "never")
         ~> (/\ Len(responses) = 1
             /\ IsSuccess(responses[1])
             /\ FilesOf(responses[1]).t = "object"
             /\ DOMAIN FilesOf(responses[1]).v # {}
             /\ Get(Get(responses[1].json, "app"), "timestamp").v - startTime >= TimeoutMs)
    /\ [](ValidRequest /\ provider.kind = "never"
            => \A i \in DOMAIN responses : IsSuccess(responses[i]) /\ ~IsError(responses[i]))

C2_Witness ==
    /\ ValidRequest /\ provider.kind = "never" /\ pc = "responded"
    /\ now - startTime >= TimeoutMs
    /\ IsSuccess(responses[1])
    /\ Get(Get(responses[1].json, "app"), "fallback") = JBool(TRUE)

\* C3: without the credential every POST is answered with a 5xx error object,
\* the model is never called and the fallback generator is not used.
C3_MissingKeyIsFatal ==
    (method = "POST" /\ ~Truthy(apiKey)) =>
      /\ apiCalls = 0
      /\ ~callPending
      /\ "messages.create" \notin steps
      /\ "generateEnhancedFallback" \notin steps
      /\ pc # "awaiting"
      /\ pc = "responded" => Len(responses) = 1
      /\ \A i \in DOMAIN responses :
           /\ responses[i].status \in 500..599
           /\ IsError(responses[i])
           /\ ~IsSuccess(responses[i])

C3_Witness ==
    /\ method = "POST" /\ ~Truthy(apiKey) /\ FieldsPresent
    /\ pc = "responded"
    /\ responses[1].status = 500
    /\ Get(responses[1].json, "error") = JStr("Missing API key")

\* C4: a request whose body lacks idea, theme or layout is rejected with a 4xx
\* status, and neither classification, prompt construction, the external call
\* nor fallback generation is attempted for it.
C4_MissingFieldRejected ==
    (method = "POST" /\ ~MissingApiKey(apiKey) /\ ~FieldsPresent) =>
      /\ steps = {}
      /\ apiCalls = 0
      /\ \A i \in DOMAIN responses : responses[i].status \in 400..499

\* C5: the external generation API is invoked at most once per request; no
\* outcome of the call leads to a second invocation.
C5_AtMostOneCall ==
    /\ apiCalls <= 1
    /\ pc = "awaiting" => apiCalls = 1
    /\ "messages.create" \in steps <=> apiCalls = 1

C5_Witness ==
    /\ apiCalls = 1 /\ pc = "responded" /\ provider.kind = "reject" /\ ~callPending
    /\ responses[1].status = 500

\* C6: the handler acts on whichever of the model call and the timer settles
\* first and sends exactly one response; the event that comes later changes
\* neither the response sent nor any other state of the handler.
C6_FirstSettledWins ==
    /\ [](Len(responses) <= 1 /\ (pc = "responded" <=> Len(responses) = 1))
    /\ [][pc = "responded" =>
            /\ responses' = responses
            /\ <<pc, appType, appData, apiCalls, steps>>' = <<pc, appType, appData, apiCalls, steps>>]_vars
    /\ [][(pc = "awaiting" /\ pc' = "responded") =>
            /\ timerArmed' # timerArmed =>
                 (callPending' = callPending
                  /\ Get(Get(responses'[1].json, "app"), "fallback") = JBool(TRUE))
            /\ callPending' # callPending =>
                 (timerArmed' = timerArmed
                  /\ Get(Get(responses'[1].json, "app"), "fallback") = Undefined)]_vars

C6_Witness ==
    /\ pc = "responded" /\ Len(responses) = 1 /\ apiCalls = 1
    /\ ~callPending /\ ~timerArmed
    /\ provider.kind = "resolve"
    /\ Get(Get(responses[1].json, "app"), "fallback") = JBool(TRUE)

\* k occurs in s when the case of letters is ignored.
ContainsIgnoreCase(s, k) ==
    \E i \in 1..(Len(s) - Len(k) + 1) : toLowerCase(SubSeq(s, i, i + Len(k) - 1)) = k

RulesMatching(idea) ==
    {i \in 1..Len(Rules) : \E k \in Rules[i].keywords : ContainsIgnoreCase(idea, k)}

\* C7: detectAppType returns a member of the closed set of categories for
\* every idea text, and productivity for the empty text and for every text
\* that contains none of the keywords.
C7_ClassifyTotalClosed ==
    pc = "classified" =>
      /\ appType.t = "string"
      /\ appType.v \in AppCategories
      /\ RulesMatching(body.idea.v) = {} => appType.v = "productivity"
      /\ body.idea.v = "" => appType.v = "productivity"

C7_Witness ==
    /\ pc = "classified" /\ body.idea.v = "" /\ appType = JStr("productivity")

C7_WitnessNoKeyword ==
    /\ pc = "classified" /\ body.idea.v = "to my " /\ appType = JStr("productivity")

\* C8: detectAppType ignores case and returns the category of the first rule,
\* in the fixed order of the rules, one of whose keywords occurs in the idea,
\* wherever in the text the keywords of the other rules occur.
C8_FirstRuleWins ==
    pc = "classified" =>
      LET hits == RulesMatching(body.idea.v) IN
      hits # {} =>
        /\ appType.v = Rules[CHOOSE i \in hits : \A j \in hits : i <= j].category
        /\ \A j \in hits : appType.v = Rules[j].category
                            \/ \E i \in hits : i < j /\ appType.v = Rules[i].category

C8_Witness ==
    /\ pc = "classified"
    /\ body.idea.v = "TRACKWeather"
    /\ RulesMatching(body.idea.v) = {2, 3}
    /\ appType = JStr("weather")

\* C9: for every category, theme and layout generateEnhancedFallback returns a
\* description whose code['App.tsx'] is a non-empty text and whose
\* config.features is a non-empty list.
C9_FallbackComplete ==
    pc = "synthesized" =>
      /\ NonEmptyText(Get(Get(appData, "code"), "App.tsx"))
      /\ Get(Get(appData, "config"), "features").t = "array"
      /\ Len(Get(Get(appData, "config"), "features").v) > 0
      /\ \A i \in DOMAIN Get(Get(appData, "config"), "features").v :
           NonEmptyText(Get(Get(appData, "config"), "features").v[i])

C9_Witness ==
    /\ pc = "synthesized"
    /\ appType = JStr("calendar") /\ body.theme = JStr("techy") /\ body.layout = JStr("quad")
    /\ Len(Get(Get(appData, "config"), "features").v) = 3
    /\ NonEmptyText(Get(Get(appData, "code"), "App.tsx"))

\* C10: every success response whose app came from the fallback generator, on
\* a parse failure and on the timeout alike, carries a files map with at least
\* package.json, src/App.tsx and README.md, for every category, theme and
\* layout.
C10_FallbackBundleFiles ==
    \A i \in DOMAIN responses :
      (IsSuccess(responses[i]) /\ "generateEnhancedFallback" \in steps) =>
        /\ FilesOf(responses[i]).t = "object"
        /\ {"package.json", "src/App.tsx", "README.md"} \subseteq DOMAIN FilesOf(responses[i]).v
        /\ \A f \in {"package.json", "src/App.tsx", "README.md"} :
             NonEmptyText(FilesOf(responses[i]).v[f])

C10_Witness ==
    /\ pc = "responded" /\ provider.kind = "never"
    /\ "generateEnhancedFallback" \in steps
    /\ appType = JStr("budget") /\ body.theme = JStr("artistic") /\ body.layout = JStr("triple")
    /\ IsSuccess(responses[1])
    /\ DOMAIN FilesOf(responses[1]).v = {"package.json", "src/App.tsx", "README.md"}

C10_WitnessParseFailure ==
    /\ pc = "responded" /\ provider.kind = "resolve"
    /\ "generateEnhancedFallback" \in steps
    /\ IsSuccess(responses[1])
    /\ "devbox.json" \in DOMAIN FilesOf(responses[1]).v

\* C11: in every bundle the generation endpoint returns, the manifest declares
\* a startup command and the source file that command names is a key of the
\* same bundle.
C11_EntryPointInBundle ==
    \A i \in DOMAIN responses :
      IsSuccess(responses[i]) =>
        LET files == FilesOf(responses[i]).v
            command == StartupCommand(files["package.json"].v)
        IN command # "" /\ EntryPoint(command) \in DOMAIN files

\* The name of the package.json the generation handler assembled for title.
AssembledName == NameOf(manifest)

TitleIsText == title.t = "string" /\ title.v # ""

\* C12 (as stated): the project name is the lowercased title with every
\* maximal run of non-alphanumeric characters replaced by one separator.
C12_RunsBecomeOneSeparator ==
    (slugPc # "assemble" /\ TitleIsText) =>
      AssembledName = replaceNonAlnumRuns(toLowerCase(title.v))

\* C12 (amended): the project name has the length of the title; a letter or
\* digit of the title stands in it in lower case and every other character is
\* replaced by a separator of its own, so a run of k such characters yields k
\* separators.
C12_EachCharacterReplaced ==
    (slugPc # "assemble" /\ TitleIsText) =>
      /\ Len(AssembledName) = Len(title.v)
      /\ \A i \in 1..Len(title.v) :
           LET c == CharAt(title.v, i)
               d == CharAt(AssembledName, i)
           IN IF c \in AlnumSet
              THEN d = (IF c \in UpperSet THEN LowerOf[c] ELSE c)
              ELSE d = "-"

C12_Witness ==
    /\ slugPc = "reassemble"
    /\ title = JStr("My &")
    /\ AssembledName = "my--"

\* C13: the project name of a title that is itself a project name is that
\* name again, and generatePackageJson derives for a title the name the
\* generation handler derives for it.
C13_SlugIdempotent ==
    /\ slugPc \in {"download", "done"} => NameOf(reassembled) = AssembledName
    /\ (slugPc = "done" /\ TitleIsText) =>
         /\ download.status = 200
         /\ NameOf(download.packageJson) = AssembledName

C13_Witness ==
    /\ slugPc = "done"
    /\ title = JStr("App &")
    /\ AssembledName = "app--"
    /\ NameOf(reassembled) = "app--"
    /\ NameOf(download.packageJson) = "app--"

\* The part of the attachment filename that stands for the title.
FilenameSlug(header) ==
    LET key == "filename=\""
        from == IndexOf(header, key) + Len(key)
    IN SubSeq(header, from, LastIndexOf(header, "-vibe-app.zip\"") - 1)

\* C14: the title part of the download response's attachment filename equals
\* the project name in the package.json made for the same title.
C14_FilenameUsesProjectName ==
    (slugPc = "done" /\ download.status = 200) =>
      /\ FilenameSlug(download.headers.ContentDisposition) = NameOf(download.packageJson)
      /\ TitleIsText =>
           FilenameSlug(download.headers.ContentDisposition) = AssembledName

\* The model call resolved with a text block.
HasTextBlock ==
    provider.kind = "resolve" /\ \E i \in DOMAIN provider.content : provider.content[i].type = "text"

\* The text of the first text block of the model's reply.
ModelText ==
    LET texts == {i \in DOMAIN provider.content : provider.content[i].type = "text"}
    IN provider.content[CHOOSE i \in texts : \A j \in texts : i <= j].text

\* The handler has answered from the model's text, not from the timer.
ModelAnswered ==
    /\ pc = "responded"
    /\ HasTextBlock
    /\ Get(Get(responses[1].json, "app"), "fallback") # JBool(TRUE)

\* A value has the shape the prompt asks for: an object with title,
\* description, a non-empty text code['App.tsx'], config.theme, config.layout
\* and config.features.
WellShaped(v) ==
    /\ v.t = "object"
    /\ Get(v, "title").t # "undefined"
    /\ Get(v, "description").t # "undefined"
    /\ NonEmptyText(Get(Get(v, "code"), "App.tsx"))
    /\ Get(Get(v, "config"), "theme").t # "undefined"
    /\ Get(Get(v, "config"), "layout").t # "undefined"
    /\ Get(Get(v, "config"), "features").t # "undefined"

\* C15: when the model's text parses as JSON but the value is not of the
\* shape the prompt asks for, the handler answers with success and the
\* complete fallback description, neither with the partial data nor with an
\* error.
C15_MalformedShapeFallsBack ==
    (ModelAnswered /\ ~JSONparse(cleanText(ModelText)).threw
       /\ ~WellShaped(JSONparse(cleanText(ModelText)).value)) =>
      /\ IsSuccess(responses[1])
      /\ ~IsError(responses[1])
      /\ "generateEnhancedFallback" \in steps
      /\ WellShaped(Get(responses[1].json, "app"))

\* The text from the first opening brace to the last closing brace, "" if none.
BraceSpan(text) ==
    LET from == IndexOf(text, "{")
        to == LastIndexOf(text, "}")
    IN IF from = 0 \/ to < from THEN "" ELSE SubSeq(text, from, to)

\* C16: the fence-stripped text is parsed first and, if that fails, the text
\* from the first opening to the last closing brace; a JSON object inside
\* prose is accepted as the model's description and the fallback is used only
\* when both parses fail.
C16_BraceSpanRetried ==
    ModelAnswered =>
      LET text == cleanText(ModelText)
          full == JSONparse(text)
          span == JSONparse(BraceSpan(text))
      IN /\ (full.threw /\ ~span.threw) =>
              (appData = span.value /\ "generateEnhancedFallback" \notin steps)
         /\ "generateEnhancedFallback" \in steps => (full.threw /\ span.threw)

\* C17: when the text block of the model's reply does not parse as JSON the
\* handler sends one response, with success: true and the fallback
\* description made for the request's idea, theme and layout, and no error
\* object or parse message.
C17_ParseFailureFallsBack ==
    (ModelAnswered /\ JSONparse(cleanText(ModelText)).threw) =>
      LET app == Get(responses[1].json, "app") IN
      /\ Len(responses) = 1
      /\ IsSuccess(responses[1])
      /\ ~IsError(responses[1])
      /\ Get(responses[1].json, "details") = Undefined
      /\ "generateEnhancedFallback" \in steps
      /\ Get(Get(app, "config"), "theme") = body.theme
      /\ Get(Get(app, "config"), "layout") = body.layout
      /\ includes(Get(app, "description").v, body.idea.v)
      /\ Get(app, "appType") = appType
      /\ NonEmptyText(Get(Get(app, "code"), "App.tsx"))

C17_Witness ==
    /\ ModelAnswered
    /\ ModelText = "Sure! Here's your app: {not valid json"
    /\ body = [idea |-> JStr("Weather for my city"), theme |-> JStr("techy"),
               layout |-> JStr("quad")]
    /\ IsSuccess(responses[1])
    /\ Get(Get(responses[1].json, "app"), "title") = JStr("Weather Dashboard")
    /\ Get(Get(Get(responses[1].json, "app"), "config"), "theme") = JStr("techy")

\* The entries of a store and the time each records.
StoredApps(store) ==
    {responseJson(store[q]) : q \in {r \in DOMAIN store : StartsWithAt(r, 1, "apps/")}}

CreatedAt(app) == getTime(Get(app, "createdAt").v)

\* The listing handler answers with a list in this step.
ListingSent == listing = Undefined /\ listing' # Undefined /\ listing'.status = 200

ListedApps(response) == {Get(response.json, "apps").v[i] : i \in DOMAIN Get(response.json, "apps").v}

C19_ListingIsLatestFifty ==
    [][ListingSent =>
         /\ Len(Get(listing'.json, "apps").v) <= ListLimit
         /\ \A e \in StoredApps(blobs) \ ListedApps(listing') :
              \A l \in ListedApps(listing') : CreatedAt(e) <= CreatedAt(l)]_vars

\* C20: a publish answered with success has stored, under the key made from
\* the id it generated, an entry with that id, a createdAt taken from the
\* clock during the request and featured false; neither comes from the
\* caller's data; the response carries that id as appId and the url of that
\* blob.
C20_PublishAssignsIdAndTime ==
    \A p \in Publishers :
      (publish[p].pc = "responded" /\ publish[p].response.status = 200) =>
        LET appId == Get(publish[p].response.json, "appId")
            path == EntryPath(appId.v)
            stored == responseJson(blobs[path])
        IN /\ Get(publish[p].response.json, "success") = JBool(TRUE)
           /\ appId.t = "string" /\ appId.v \in AppIdTokens
           /\ appId # Get(publish[p].body.appData, "id")
           /\ path \in DOMAIN blobs
           /\ Get(stored, "id") = appId
           /\ Get(stored, "featured") = JBool(FALSE)
           /\ Get(stored, "createdAt").t = "string"
           /\ CreatedAt(stored) \in ClockStart..clock
           /\ Get(publish[p].entry, "createdAt") # Get(publish[p].body.appData, "createdAt")
           /\ Get(publish[p].response.json, "url") = JStr(BlobUrl(path))

C20_Witness ==
    /\ publish["p1"].pc = "responded"
    /\ publish["p1"].response.status = 200
    /\ Get(publish["p1"].response.json, "appId") = JStr("a8b7c6d5e4f3g")
    /\ "apps/a8b7c6d5e4f3g.json" \in DOMAIN blobs
    /\ Get(responseJson(blobs["apps/a8b7c6d5e4f3g.json"]), "title") = JStr("Grocery List")
    /\ Get(responseJson(blobs["apps/a8b7c6d5e4f3g.json"]), "createdAt")
         = JStr("2024-01-01T00:00:51.001Z")

\* A publish has completed: the handler has answered it with success.
Completed(p) ==
    publish[p].pc = "responded" /\ publish[p].response.status = 200

\* C21: once a publish has completed, no step of a later or concurrent publish
\* modifies, overwrites or removes the entry stored under its id: the blob at
\* apps/<appId>.json stays in the store with unchanged content.
C21_EntriesAppendOnly ==
    [][\A p \in Publishers :
         Completed(p) =>
           LET path == EntryPath(Get(publish[p].response.json, "appId").v)
           IN path \in DOMAIN blobs' /\ blobs'[path] = blobs[path]]_vars

RECURSIVE Lines(_)
\* The lines of a text.
Lines(s) ==
    LET at == IndexOf(s, "\n")
    IN IF at = 0 THEN <<s>>
       ELSE <<SubSeq(s, 1, at - 1)>> \o Lines(SubSeq(s, at + 1, Len(s)))

\* The bullets of a readme: its lines that start with "- ", in their order.
Bullets(text) == SelectSeq(Lines(text), LAMBDA l : StartsWithAt(l, 1, "- "))

\* C22: the readme of every bundle the handler returns has one bullet per
\* feature of the app description it comes with, in the order of the features,
\* and exactly the two default bullets when the description has no feature
\* list or an empty one.
C22_ReadmeListsFeatures ==
    \A i \in DOMAIN responses :
      (IsSuccess(responses[i]) /\ Get(FilesOf(responses[i]), "README.md").t = "string") =>
        LET app == Get(responses[i].json, "app")
            features == Get(Get(app, "config"), "features")
            bullets == Bullets(Get(FilesOf(responses[i]), "README.md").v)
        IN IF features.t = "array" /\ Len(features.v) > 0
           THEN bullets = [k \in 1..Len(features.v) |-> "- " \o Str(features.v[k])]
           ELSE bullets = <<"- Modern design", "- Responsive layout">>

RECURSIVE Occurs(_, _)
\* The text k occurs in a value: in a string of it or in a key of an object of it.
Occurs(k, x) ==
    CASE x.t = "string" -> includes(x.v, k)
      [] x.t = "array" -> \E i \in DOMAIN x.v : Occurs(k, x.v[i])
      [] x.t = "object" ->
           \E m \in DOMAIN x.v : includes(m, k) \/ Occurs(k, x.v[m])
      [] OTHER -> FALSE

\* C23: two runs of the generation handler under two non-empty credentials,
\* on the same request, the same outcome of the model call and the same draws
\* of the clock and of Math.random, send the same response, bundle files
\* included; the credential occurs neither in a response nor in the gallery
\* entry stored when the returned app is published, and the two entries are
\* the same.
C23_CredentialDoesNotFlow ==
    runs # <<>> =>
      /\ \A a, b \in Credentials :
           (runs[a].pc # "request" /\ runs[b].pc # "request") =>
             /\ runs[a].response = runs[b].response
             /\ FilesOf(runs[a].response) = FilesOf(runs[b].response)
      /\ \A a, b \in Credentials :
           (runs[a].pc = "published" /\ runs[b].pc = "published") =>
             runs[a].stored = runs[b].stored
      /\ \A k, c \in Credentials :
           /\ runs[k].pc # "request" => ~Occurs(c, runs[k].response.json)
           /\ runs[k].pc = "published" =>
                \A q \in DOMAIN runs[k].stored :
                  ~Occurs(c, responseJson(runs[k].stored[q]))

C23_Witness ==
    /\ runs # <<>>
    /\ \A k \in Credentials : runs[k].pc = "published" /\ runs[k].clientKey = JStr(k)
    /\ runs["sk-ant-api03-A"].clientKey # runs["sk-ant-api03-B"].clientKey
    /\ draws.outcome.kind = "resolve"
    /\ Get(Get(runs["sk-ant-api03-A"].response.json, "app"), "title") = JStr("Grocery List")
    /\ DOMAIN runs["sk-ant-api03-B"].stored = {"apps/z3j9x2m4p7q1k.json"}

\* The titles and the feature lists of the fallback tables, by category.
FallbackTitleOf(category) ==
    CASE category = "todo" -> "Smart Todo Manager"
      [] category = "weather" -> "Weather Dashboard"
      [] category = "habit-tracker" -> "Habit Tracker Pro"
      [] category = "recipe" -> "Recipe Collection"
      [] category = "notes" -> "Notes App"
      [] category = "audio-tracker" -> "Audio Logger"
      [] category = "timer" -> "Focus Timer"
      [] category = "calculator" -> "Smart Calculator"
      [] category = "productivity" -> "Productivity Hub"
      [] OTHER -> "Vibe App"

FallbackFeaturesOf(category) ==
    CASE category = "todo" -> <<"Add/Edit Tasks", "Mark Complete", "Filter Views", "Search">>
      [] category = "weather" ->
           <<"Current Weather", "5-Day Forecast", "City Search", "Unit Toggle">>
      [] category = "habit-tracker" ->
           <<"Daily Tracking", "Streak Counter", "Progress Charts", "Add Habits">>
      [] category = "recipe" ->
           <<"Recipe Cards", "Ingredient Lists", "Search Recipes", "Favorites">>
      [] category = "audio-tracker" ->
           <<"Audio Detection", "Species Library", "Logging", "Analytics">>
      [] category = "productivity" ->
           <<"Dashboard", "Task Management", "Analytics", "Quick Actions">>
      [] OTHER -> <<"Modern Design", "Responsive Layout", "Interactive UI">>

\* C24: for every category generateEnhancedFallback returns the fixed title of
\* the category's entry in the title table (the fixed title Vibe App for a
\* category without one), a description that contains the theme name and the
\* idea text, and the feature list of the category's entry in the feature
\* table, the generic three-item list for a category without one; for the
\* category todo the title contains Todo or Task and the features include
\* Add/Edit Tasks and Mark Complete.
C24_FallbackTitlesAndFeatures ==
    pc = "synthesized" =>
      LET features == Get(Get(appData, "config"), "features")
          description == Get(appData, "description")
      IN /\ Get(appData, "title") = JStr(FallbackTitleOf(appType.v))
         /\ description.t = "string"
         /\ includes(description.v, body.theme.v)
         /\ includes(description.v, body.idea.v)
         /\ features = JArr([i \in 1..Len(FallbackFeaturesOf(appType.v)) |->
                               JStr(FallbackFeaturesOf(appType.v)[i])])
         /\ appType.v \in {"notes", "timer", "calculator", "calendar", "budget"} =>
              Len(features.v) = 3
         /\ appType.v = "todo" =>
              /\ \/ includes(Get(appData, "title").v, "Todo")
                 \/ includes(Get(appData, "title").v, "Task")
              /\ \E i \in DOMAIN features.v : features.v[i] = JStr("Add/Edit Tasks")
              /\ \E i \in DOMAIN features.v : features.v[i] = JStr("Mark Complete")

C24_Witness ==
    /\ pc = "synthesized"
    /\ appType = JStr("todo")
    /\ body.idea = JStr("A todo app for groceries")
    /\ body.theme = JStr("playful")
    /\ Get(appData, "title") = JStr("Smart Todo Manager")
    /\ Get(appData, "description") = JStr("A playful todo app: A todo app for groceries")
    /\ Len(Get(Get(appData, "config"), "features").v) = 4

\* C25: the archive the download handler returns for a generated app holds
\* that app's source: its src/App.tsx is the app's code['App.tsx'] and the
\* src/App.tsx of the app's files whenever these are non-empty texts, not a
\* template made from theme and layout.
C25_ArchiveHoldsGeneratedSource ==
    \A k \in DOMAIN runs :
      (runs[k].pc = "downloaded" /\ runs[k].download.status = 200) =>
        LET app == Get(runs[k].response.json, "app")
            code == Get(Get(app, "code"), "App.tsx")
            file == Get(Get(app, "files"), "src/App.tsx")
            zip == runs[k].download.zip
        IN /\ "src/App.tsx" \in DOMAIN zip
           /\ NonEmptyText(code) => zip["src/App.tsx"] = code.v
           /\ NonEmptyText(file) => zip["src/App.tsx"] = file.v

\* C26: a success response of the generation handler carries fallback: true
\* exactly when its app description was produced by the fallback synthesizer,
\* on the timeout and on a parse failure alike, not by the model.
C26_FallbackFlagMatchesProducer ==
    \A i \in DOMAIN responses :
      IsSuccess(responses[i]) =>
        (Get(Get(responses[i].json, "app"), "fallback") = JBool(TRUE)
           <=> "generateEnhancedFallback" \in steps)

\* C27: for every appData passed to saveApp, one with an id of its own
\* included, the id field of the stored entry is the appId saveApp returns,
\* which makes the key apps/<appId>.json, so that deleteApp called with the
\* stored entry's id removes that entry and no other.
C27_StoredIdIsKey ==
    [][\A c \in Callers :
         /\ (publish[c].pc = "saveApp" /\ publish'[c].pc = "deleteApp") =>
              LET appId == publish'[c].saved.appId
                  path == EntryPath(appId.v)
              IN /\ path \in DOMAIN blobs'
                 /\ Get(responseJson(blobs'[path]), "id") = appId
                 /\ Get(publish'[c].saved.app, "id") = appId
                 /\ \A q \in DOMAIN blobs : q # path => blobs'[q] = blobs[q]
         /\ (publish[c].pc = "deleteApp" /\ publish'[c].deleted = JBool(TRUE)) =>
              LET path == EntryPath(publish[c].saved.appId.v)
              IN /\ path \notin DOMAIN blobs'
                 /\ DOMAIN blobs' = DOMAIN blobs \ {path}
                 /\ \A q \in DOMAIN blobs' : blobs'[q] = blobs[q]]_vars

\* C28: whenever the publish handler answers with an error the store is as it
\* was when the request arrived: no entry was written for the request and the
\* list was not updated, also when the put of the entry succeeds and the put
\* of the list fails.
C28_ErrorLeavesStoreUnchanged ==
    \A p \in Publishers :
      (publish[p].pc = "responded" /\ IsError(publish[p].response)) =>
        /\ publish[p].entry # Undefined =>
             \/ EntryPath(Get(publish[p].entry, "id").v) \notin DOMAIN blobs
             \/ blobs[EntryPath(Get(publish[p].entry, "id").v)]
                  # JSONstringify(publish[p].entry)
        /\ publish[p].list # Undefined =>
             \/ IndexPath \notin DOMAIN blobs
             \/ blobs[IndexPath] # JSONstringify(publish[p].list)

\* The entries of the list stored at public-apps.json, none when there is no list.
IndexEntries(store) ==
    IF IndexPath \in DOMAIN store /\ responseJson(store[IndexPath]).t = "array"
    THEN responseJson(store[IndexPath]).v
    ELSE <<>>

\* C29: when two publish requests that ran concurrently have both been
\* answered with success, the list at public-apps.json holds the entry of
\* each, whatever the order of their reads and writes of the list.
C29_IndexHoldsBothEntries ==
    (\A p \in Publishers : Completed(p)) =>
      \A p \in Publishers :
        \E i \in DOMAIN IndexEntries(blobs) :
          IndexEntries(blobs)[i] = JsonValue(publish[p].entry)

\* C30: a successful publish leaves at public-apps.json the new entry followed
\* by the first 49 entries of the list as it was before, in their order: at
\* most 50 entries, and every entry of a list of fewer than 50 is kept, also
\* when the read of the current list fails.
C30_IndexIsNewEntryThenPrevious ==
    [][\A p \in Publishers :
         (publish[p].pc = "putIndex" /\ Completed(p)') =>
           LET before == IndexEntries(blobs)
               after == IndexEntries(blobs')
               all == <<JsonValue(publish[p].entry)>> \o before
           IN /\ after = SubSeq(all, 1, IF Len(all) < IndexLimit THEN Len(all) ELSE IndexLimit)
              /\ Len(after) <= IndexLimit
              /\ Len(before) < IndexLimit =>
                   \A i \in DOMAIN before : \E j \in DOMAIN after : after[j] = before[i]]_vars

====
